---- MODULE Spec2Model ----
(***************************************************************************)
(* Model of the Tablo client of custom_components/tablo_remote:            *)
(* TabloClient.authenticate (the cloud handshake and the device probe) and *)
(* the local-device calls get_server_info / watch_channel with their       *)
(* request signing.                                                        *)
(*                                                                         *)
(* Representation.  Opaque strings (tokens, identifiers, messages of the   *)
(* cloud) are TLA+ strings.  Strings the code takes apart or builds (URLs, *)
(* paths, bodies, hashes, error messages) are sequences of tokens, the     *)
(* empty string being << >>.  A JSON object is a function from its keys;   *)
(* a key that is absent is absent from the DOMAIN.  Python's None is NONE. *)
(***************************************************************************)
EXTENDS Integers, Sequences, FiniteSets, TLC

VARIABLES
    now,         \* the wall clock, in ticks
    client,      \* the DeviceClient under use: its four fields
    devPc,       \* position of the device call: "idle", "wait", "done"
    devOp,       \* the device call in progress or last ended: its name and
                 \* arguments, and the device URL of the client it runs on
    devLog,      \* the HTTP requests the current device call has issued
    devResp,     \* the outcomes those requests have had, in order
    devResult,   \* how the last device call ended
    devCalls,    \* number of device calls started
    authPc,      \* position of authenticate: "idle", "login", "account",
                 \* "select", "probe", "done"
    auth,        \* the locals of the authenticate call in progress
    authLog,     \* the HTTP requests the current authenticate call has issued
    authResp,    \* the outcomes those requests have had, in order
    authResult,  \* how the last authenticate call ended
    authCalls,   \* number of authenticate calls started (also feeds uuid4)
    devHead,     \* the response head of the pending device-client exchange
                 \* has arrived, its body has not
    authHead,    \* the same for the pending exchange of authenticate
    debug,       \* logger._DEBUG_ENABLED
    levels,      \* the levels of the package's logger and of the root logger
    cloudLog,    \* the cloud requests the current device-client call has issued
    devSessions, \* ClientSessions the device-client calls hold open
    authSessions,\* ClientSessions authenticate (and its probe) holds open
    flow,        \* the setup flow: its position, its input and its last result
    entries,     \* the config entries persisted
    svc,         \* the set_channel service invocations: for each, its
                 \* position, call data, locals, calls issued and result
    hass,        \* Home Assistant's side of the integration: hass.data[DOMAIN]
                 \* (entry id -> entry data), the services registered and
                 \* the enable_debug option of each entry
    logrecs      \* the records the logger of tablo_client.py has emitted
                 \* during the current authenticate or device-client call

vars == <<now, client, devPc, devOp, devLog, devResp, devResult, devCalls,
          authPc, auth, authLog, authResp, authResult, authCalls, devHead, authHead,
          debug, levels, cloudLog, devSessions, authSessions, flow, entries, svc, hass, logrecs>>

devVars == <<client, devPc, devOp, devLog, cloudLog, devResp, devResult, devCalls,
             devSessions, devHead>>
authVars == <<authPc, auth, authLog, authResp, authResult, authCalls, authSessions,
              authHead>>
flowVars == <<flow, entries>>

-----------------------------------------------------------------------------
(* Bounds of the exploration. *)
MaxTime == 3
MaxDeviceCalls == 2
MaxAuthCalls == 2

(* The clock ticks twice a second; strftime keeps whole seconds only. *)
TicksPerSecond == 2

-----------------------------------------------------------------------------
(* const.py *)
NONE == "<None>"

CLOUD_API_HOST == "lighthousetv.ewscloud.com"
LOGIN_PATH == "/api/v2/login/"
ACCOUNT_PATH == "/api/v2/account/"
ACCOUNT_SELECT_PATH == "/api/v2/account/select/"

(* CHANNELS_PATH.format(lighthouse=lighthouse) *)
CHANNELS_PATH(lighthouse) == "/api/v2/account/" \o lighthouse \o "/guide/channels/"
SERVER_INFO_PATH == <<"/", "server", "/", "info">>
USER_AGENT == "Tablo-FAST/2.0.0 (Mobile; iPhone; iOS 16.6)"
ACCEPT_HEADER == "*/*"
CONTENT_TYPE_JSON == "application/json"
CONTENT_TYPE_FORM == "application/x-www-form-urlencoded"
DEVICE_KEY == "ljpg6ZkwShVv8aI12E2LP55Ep8vq1uYDPvX0DdTB"
HASH_KEY == "6l8jU5N43cEilqItmT3U2M2PFM3qPziilXqau9ys"

(* WATCH_CHANNEL_PATH.format(channel_id=channel_id) *)
WATCH_CHANNEL_PATH(channel_id) ==
    <<"/", "guide", "/", "channels", "/", channel_id, "/", "watch">>

-----------------------------------------------------------------------------
(* Python helpers. *)

(* dict.get(k, default) *)
Get(d, k, default) == IF k \in DOMAIN d THEN d[k] ELSE default

(* A JSON payload that is a list, not an object: isinstance(v, list) *)
JList(items) == [jtype |-> "list", items |-> items]
IsList(v) == "jtype" \in DOMAIN v /\ v["jtype"] = "list"

(* Mutant of the selection: the last element instead of the first *)
first_is_last(items) == items[Len(items)]

(* items[0] *)
first(items) == items[1]

(* a.update(b): the keys of b win *)
Update(a, b) == b @@ a

(* str.rstrip('/') and str.lstrip('/') on a token sequence *)
RECURSIVE RStrip(_)
RStrip(s) ==
    IF Len(s) > 0 /\ s[Len(s)] = "/" THEN RStrip(SubSeq(s, 1, Len(s) - 1))
    ELSE s

RECURSIVE LStrip(_)
LStrip(s) ==
    IF Len(s) > 0 /\ s[1] = "/" THEN LStrip(Tail(s))
    ELSE s

(* urllib.parse.urljoin(base, rel) for a base that ends with "/" and a    *)
(* relative reference without scheme, query or dot segments: the          *)
(* reference replaces the (empty) last segment of the base.               *)
urljoin(base, rel) == base \o rel

(* json.dumps of an object: the serialisation, which determines the object *)
json_dumps(obj) == <<"json", obj>>

(* hashlib.md5(b).hexdigest().lower(): a digest of exactly the bytes given *)
md5_hexdigest(b) == <<"md5", b>>

(* hmac.new(key, msg, hashlib.md5).hexdigest().lower() *)
hmac_md5_hexdigest(key, msg) == <<"hmac-md5", key, msg>>

(* The text of an MD5 hexdigest: hashlib's MD5 digest has 16 bytes and     *)
(* hexdigest() writes each byte as two hexadecimal digits, which .lower()  *)
(* leaves in lower case.                                                   *)
MD5_DIGEST_SIZE == 16
IsHexdigest(d) == Len(d) >= 2 /\ d[1] \in {"md5", "hmac-md5"}
hexdigest_len(d) == 2 * MD5_DIGEST_SIZE

(* datetime.utcnow().strftime("%a, %d %b %Y %H:%M:%S GMT") at tick t *)
DATES == << "Fri, 30 Oct 2026 12:00:00 GMT", "Fri, 30 Oct 2026 12:00:01 GMT",
            "Fri, 30 Oct 2026 12:00:02 GMT", "Fri, 30 Oct 2026 12:00:03 GMT",
            "Fri, 30 Oct 2026 12:00:04 GMT", "Fri, 30 Oct 2026 12:00:05 GMT" >>

get_device_date(t) == DATES[(t \div TicksPerSecond) + 1]

-----------------------------------------------------------------------------
(* The outcomes of one session.request exchange (request, raise_for_status, *)
(* response.json()), as the code's handlers tell them apart:               *)
(*   ok            a 2xx response whose JSON payload is .json              *)
(*   client_error  the connection fails: an aiohttp.ClientError            *)
(*   http_error    a non-2xx status: raise_for_status raises               *)
(*                 ClientResponseError, an aiohttp.ClientError             *)
(*   timeout       ClientTimeout(total=DEFAULT_REQUEST_TIMEOUT) expires:   *)
(*                 asyncio.TimeoutError, which is not an aiohttp.ClientError *)
Ok(json) == [kind |-> "ok", json |-> json, text |-> "200"]
ClientError == [kind |-> "client_error", json |-> <<>>, text |-> "Cannot connect to host"]
HttpError == [kind |-> "http_error", json |-> <<>>, text |-> "500, message='Internal Server Error'"]
Timeout == [kind |-> "timeout", json |-> <<>>, text |-> ""]

Failures == {ClientError, HttpError, Timeout}

IsAiohttpClientError(outcome) == outcome.kind \in {"client_error", "http_error"}

(* How a call ends. *)
NoResult == [status |-> "none", exc |-> NONE, msg |-> <<>>, value |-> <<>>]
Returned(v) == [status |-> "returned", exc |-> NONE, msg |-> <<>>, value |-> v]
Raised(exc, msg) == [status |-> "raised", exc |-> exc, msg |-> msg, value |-> <<>>]

(* Access to a dict method on a payload that is a list *)
AttributeError(attr) ==
    Raised("AttributeError", <<"'list' object has no attribute ", attr>>)

(* logger.is_debug_enabled() *)
is_debug_enabled == debug

(* A log record: its level, its format string and the strings its         *)
(* arguments put into the text.  Numbers and keys are left out.            *)
Rec(level, fmt, strings) == [level |-> level, fmt |-> fmt, strings |-> strings]

(* logging's numeric levels *)
LEVELS == [notset |-> 0, debug |-> 10, info |-> 20, warning |-> 30, error |-> 40]

(* set_debug(enabled): the level it gives the package's logger (and the    *)
(* handlers of that logger)                                                *)
level_of(enabled) == IF enabled THEN "debug" ELSE "info"

(* Logger.getEffectiveLevel of the logger of tablo_client.py: the level of *)
(* the package's logger once set_debug has set one, else the root's; the   *)
(* module's own logger has no level, get_logger sets none.                 *)
getEffectiveLevel ==
    IF levels.package # "notset" THEN levels.package ELSE levels.root

(* Logger.isEnabledFor: a record passes at or above the effective level *)
IsEmitted(r) == LEVELS[r.level] >= LEVELS[getEffectiveLevel]

(* The calls under `if is_debug_enabled():` *)
IfDebug(recs) == IF is_debug_enabled THEN recs ELSE <<>>

Emitted(recs) == SelectSeq(recs, IsEmitted)

(* logrecs holds what a handler attached to the logger has received, and   *)
(* NoCapture while none is attached.  A call starts the capture afresh.    *)
NoCapture == <<Rec("off", "", {})>>

LogStart(recs) == IF logrecs = NoCapture THEN NoCapture ELSE Emitted(recs)

LogMore(recs) == IF logrecs = NoCapture THEN NoCapture ELSE logrecs \o Emitted(recs)

(* The tokens of a computed string *)
TokSet(s) == {s[i] : i \in 1..Len(s)}

(* s[:8] + "..." *)
Truncated(s) == (IF Len(s) > 8 THEN SubSeq(s, 1, 8) ELSE s) \o "..."

(* The keys under which the payloads hold a mapping (isinstance(v, dict)), *)
(* and those whose values are numbers or lists.                            *)
DictKeys == {"model", "device", "profile", "extra", "ota", "ott"}
NonStringKeys == {"tuners", "limitedAdTracking", "height", "width", "major", "minor",
                  "profiles", "devices"}

SENSITIVE_KEYS ==
    {"password", "access_token", "authorization", "lighthousetv_authorization", "token"}

REDACTED == "***REDACTED***"

(* logger.log_sensitive_data(data) for a mapping: the copy in which the    *)
(* values under the sensitive keys are masked, in nested mappings too.     *)
RECURSIVE log_sensitive_data(_)
log_sensitive_data(data) ==
    [k \in DOMAIN data |->
        IF k \in SENSITIVE_KEYS THEN REDACTED
        ELSE IF k \in DictKeys THEN log_sensitive_data(data[k])
        ELSE data[k]]

(* The strings the text of a mapping shows: its string values, those of    *)
(* its nested mappings and the tokens of a URL.                            *)
RECURSIVE JsonStrings(_)
JsonStrings(d) ==
    UNION { IF k \in DictKeys THEN JsonStrings(d[k])
            ELSE IF k = "url" THEN TokSet(d[k])
            ELSE IF k \in NonStringKeys THEN {}
            ELSE {d[k]} : k \in DOMAIN d }

(* logger.log_sensitive_data(data): the error it raises, NoResult when it  *)
(* returns the sanitized copy.  A list has copy() but no items().          *)
log_sensitive_data_error(data) ==
    IF IsList(data) THEN AttributeError("items") ELSE NoResult

(* Mutant of `async with`: the session is closed on a normal return only *)
session_exit_on_return_only(open, result) ==
    IF result.status = "returned" THEN open - 1 ELSE open

(* `async with ClientSession() as session:` entered, and left with the     *)
(* body having ended as `result`: __aexit__ closes the session whatever    *)
(* the result is.                                                          *)
session_enter(open) == open + 1
session_exit(open, result) == open - 1

-----------------------------------------------------------------------------
(* TabloClient.__init__ *)
TabloClient(credentials) ==
    LET url0 == IF "device" \in DOMAIN credentials
                THEN Get(credentials["device"], "url", <<>>)
                ELSE <<>>
    IN  [ device_url    |-> IF Len(url0) = 0
                            THEN Get(credentials, "device_url", <<>>)
                            ELSE url0,
          uuid          |-> Get(credentials, "uuid", ""),
          lighthouse    |-> Get(credentials, "lighthouse", ""),
          authorization |-> Get(credentials, "lighthousetv_authorization", "") ]

(* Mutants of _make_device_auth: the body is hashed even when it is empty; *)
(* the date is left at the parameter's default; the header names the       *)
(* signing key instead of the device key; the client's UUID is signed with *)
(* the rest.                                                               *)
full_str_always_hashed(method, path, body, date) ==
    <<method, path, md5_hexdigest(body), date>>

make_device_auth_default_date(method, path, body, date) ==
    <<"tablo", DEVICE_KEY,
      hmac_md5_hexdigest(HASH_KEY,
          <<method, path, IF Len(body) > 0 THEN md5_hexdigest(body) ELSE <<>>, "">>)>>

(* TabloClient._make_device_auth; the header "tablo:{DEVICE_KEY}:{mac}" is  *)
(* the triple of its parts and the signing string the tuple of its lines.  *)
full_str(method, path, body, date) ==
    LET body_hash == IF Len(body) > 0 THEN md5_hexdigest(body) ELSE <<>>
    IN  <<method, path, body_hash, date>>

make_device_auth_hash_key(method, path, body, date) ==
    <<"tablo", HASH_KEY, hmac_md5_hexdigest(HASH_KEY, full_str(method, path, body, date))>>

make_device_auth_with_uuid(method, path, body, date) ==
    <<"tablo", DEVICE_KEY,
      hmac_md5_hexdigest(HASH_KEY, full_str(method, path, body, date) \o <<client.uuid>>)>>

make_device_auth(method, path, body, date) ==
    <<"tablo", DEVICE_KEY, hmac_md5_hexdigest(HASH_KEY, full_str(method, path, body, date))>>

(* The optional dict argument `body` of _request_device. *)
NoBody == [none |-> TRUE,  dict |-> <<>>]
Dict(d) == [none |-> FALSE, dict |-> d]
Truthy(body) == ~body.none /\ DOMAIN body.dict # {}

(* The device-descriptor envelope of _request_device. *)
device_body(uuid) ==
    [ bandwidth |-> NONE,
      extra     |-> [ limitedAdTracking |-> 1, deviceOSVersion |-> "16.6",
                      lang |-> "en_US", height |-> 1080,
                      deviceId |-> "00000000-0000-0000-0000-000000000000",
                      width |-> 1920, deviceModel |-> "iPhone10,1",
                      deviceMake |-> "Apple", deviceOS |-> "iOS" ],
      device_id |-> uuid,
      platform  |-> "ios" ]

(* The body string _request_device builds *)
body_str(c, method, body) ==
    IF method = "POST" /\ Truthy(body)
    THEN json_dumps(Update(device_body(c.uuid), body.dict))
    ELSE <<>>

(* Mutant of the URL: the base address keeps its trailing slashes *)
device_request_url_unstripped(c, path) ==
    urljoin(c.device_url \o <<"/">>, LStrip(path))

(* The URL _request_device requests *)
device_request_url(c, path) ==
    urljoin(RStrip(c.device_url) \o <<"/">>, LStrip(path))

(* TabloClient._request_device up to the call of session.request: the      *)
(* request it hands to the session at tick t.                              *)
device_request(c, method, path, body, t) ==
    LET date == get_device_date(t)
        bs   == body_str(c, method, body)
        h0   == ("Connection" :> "keep-alive") @@ ("Date" :> date)
                @@ ("Accept" :> ACCEPT_HEADER) @@ ("User-Agent" :> USER_AGENT)
        h1   == IF Len(bs) > 0
                THEN Update(h0, ("Content-Type" :> CONTENT_TYPE_FORM)
                                @@ ("Content-Length" :> <<"len", bs>>))
                ELSE h0
        h2   == Update(h1, "Authorization" :> make_device_auth(method, path, bs, date))
    IN  [ method  |-> method,
          url     |-> device_request_url(c, path),
          headers |-> h2,
          data    |-> [present |-> Len(bs) > 0, body |-> bs] ]

(* aiohttp refuses a URL without a host with InvalidURL, a ClientError,    *)
(* before anything is sent.                                                *)
HasHost(url) == Len(url) > 0 /\ url[1] # "/"

InvalidURL == [kind |-> "client_error", json |-> <<>>, text |-> "InvalidURL"]

(* TabloClient._request_device from session.request on: how the call ends  *)
(* on each outcome of the exchange.                                        *)
device_result(outcome) ==
    IF outcome.kind = "ok"
    THEN IF is_debug_enabled /\ log_sensitive_data_error(outcome.json).status = "raised"
         THEN log_sensitive_data_error(outcome.json)
         ELSE Returned(outcome.json)
    ELSE IF IsAiohttpClientError(outcome)
         THEN Raised("TabloConnectionError", <<"Device request failed: ", outcome.text>>)
         ELSE Raised("TimeoutError", <<>>)

-----------------------------------------------------------------------------
(* Inputs. *)

(* Device base addresses: plain, with a trailing slash, under a path       *)
(* prefix, and the empty string a mapping without a URL gives.             *)
U_PLAIN == <<"http://10.0.0.5:8885">>
U_SLASH == <<"http://10.0.0.5:8885", "/">>
U_PREFIX == <<"http://10.0.0.5:8885", "/", "tablo">>
U_EMPTY == <<>>

DeviceUrls == {U_PLAIN, U_SLASH, U_PREFIX, U_EMPTY}

(* Channel identifiers as the lineup gives them: non-empty, URL-safe path  *)
(* segments.                                                               *)
ChannelIds == {"abc123", "S7_1"}

(* Credentials-shaped mappings a DeviceClient is constructed from: the     *)
(* reduced mapping of the service layer, a full bundle of authenticate, a   *)
(* mapping that passes device_url directly, and an empty one.              *)
ReducedCredentials(u) ==
    [ device |-> [url |-> u], uuid |-> "uuid-p", lighthouse |-> "lh-p",
      lighthousetv_authorization |-> "Bearer tokP" ]

InitialCredentials == ReducedCredentials(U_PLAIN)

CredentialInputs ==
    { ReducedCredentials(u) : u \in DeviceUrls }
    \cup { [ lighthousetv_authorization |-> "Bearer tokA",
             lighthousetv_identifier |-> "acct-1",
             profile |-> [identifier |-> "prof-1", name |-> "Main"],
             device |-> [serverId |-> "SID-2", name |-> "Den", url |-> U_SLASH],
             lighthouse |-> "lh-1", uuid |-> "uuid-1", tuners |-> 2 ],
           [ device_url |-> U_PLAIN, uuid |-> "uuid-q" ],
           <<>> }

(* Bodies a caller may hand to _request_device *)
BodyInputs ==
    { NoBody, Dict(<<>>), Dict([channel |-> "7.1"]), Dict([device_id |-> "other"]) }

ServerInfos ==
    { [model |-> [tuners |-> 4, name |-> "Tablo 4th Gen"]],
      [model |-> [name |-> "Tablo"]],
      <<>>,
      JList(<<>>) }

WatchAcks == { [token |-> "session-1"] }

DeviceOutcomes == {Ok(j) : j \in ServerInfos \cup WatchAcks} \cup Failures

-----------------------------------------------------------------------------
(* An entry of a request log: the request handed to the session, the       *)
(* operation that issued it and the tick at which it was issued.           *)
LogEntry(op, req, t) == [op |-> op, req |-> req, at |-> t]

(* The concurrent invocations of the set_channel service, and one that    *)
(* has not been called yet.                                                *)
Invocations == {"a", "b"}

IdleInvocation ==
    [ pc |-> "idle",
      data |-> [channel_id |-> NONE, channel_number |-> NONE, roku_entity_id |-> NONE],
      client |-> <<>>, channel_id |-> NONE, calls |-> <<>>, resp |-> <<>>,
      result |-> NoResult, sessions |-> 0, wake |-> 0, head |-> FALSE ]

InitCore ==
    /\ now = 0
    /\ client = TabloClient(InitialCredentials)
    /\ devPc = "idle"
    /\ devHead = FALSE
    /\ authHead = FALSE
    /\ devOp = [name |-> "none", arg |-> NONE, method |-> "", path |-> <<>>,
                body |-> NoBody, device_url |-> <<>>]
    /\ devLog = <<>>
    /\ devResp = <<>>
    /\ devResult = NoResult
    /\ devCalls = 0
    /\ authPc = "idle"
    /\ auth = <<>>
    /\ authLog = <<>>
    /\ authResp = <<>>
    /\ authResult = NoResult
    /\ authCalls = 0
    /\ cloudLog = <<>>
    /\ devSessions = 0
    /\ authSessions = 0
    /\ flow = [pc |-> "form", user_input |-> <<>>, result |-> [type |-> "none"]]
    /\ svc = [i \in Invocations |-> IdleInvocation]

(* The state after construction: nothing configured, debug logging off. *)
Init ==
    /\ InitCore
    /\ debug = FALSE
    /\ levels = [package |-> "notset", root |-> "warning"]
    /\ entries = {}
    /\ hass = [data |-> <<>>, services |-> {}, options |-> <<>>]
    /\ logrecs = NoCapture

(* Time passes. *)
Tick ==
    /\ now < MaxTime
    /\ now' = now + 1
    /\ UNCHANGED <<debug, levels, devVars, authVars, flowVars, svc, hass, logrecs>>

(* logger.set_debug *)
set_debug(enabled) ==
    /\ debug' = enabled
    /\ levels' = [levels EXCEPT !.package = level_of(enabled)]
    /\ UNCHANGED <<now, devVars, authVars, flowVars, svc, hass, logrecs>>

(* The record of TabloClient.__init__ *)
init_records(c) ==
    <<Rec("debug", "TabloClient initialized for device: %s (UUID: %s)",
          TokSet(c.device_url) \cup {IF c.uuid = "" THEN "None" ELSE Truncated(c.uuid)})>>

(* The records of a device call up to session.request: those of the        *)
(* method called, then those of _request_device, the error of a refused    *)
(* URL included.                                                           *)
device_request_records(c, name, arg, method, path, body, t) ==
    LET req == device_request(c, method, path, body, t)
        sanitized_headers == Update(req.headers, "Authorization" :> "tablo:***REDACTED***")
    IN  (IF name = "get_server_info"
         THEN <<Rec("debug", "Getting server info from device", {})>>
         ELSE IF name = "watch_channel"
         THEN <<Rec("info", "Setting channel on device: %s", {arg})>>
         ELSE <<>>)
        \o <<Rec("debug", "Making %s request to device: %s", {method} \cup TokSet(req.url))>>
        \o (IF method = "POST" /\ Truthy(body)
            THEN IfDebug(<<Rec("debug", "Request body: %s",
                       JsonStrings(log_sensitive_data(Update(device_body(c.uuid), body.dict))))>>)
            ELSE <<>>)
        \o IfDebug(<<Rec("debug", "Request headers: %s",
                  {sanitized_headers[k] : k \in DOMAIN sanitized_headers \ {"Content-Length"}})>>)
        \o (IF HasHost(req.url) THEN <<>>
            ELSE <<Rec("error", "Device request failed: %s - %s",
                       TokSet(req.url) \cup {InvalidURL.text})>>)

(* The records of a device call once the exchange has its outcome: the     *)
(* status of a response that raise_for_status refuses, the payload, the    *)
(* error.  The status of a 2xx response was logged when its head arrived.  *)
device_response_records(name, arg, url, outcome) ==
    (IF outcome.kind = "http_error"
     THEN <<Rec("debug", "Device response status: %s", {"500"})>>
     ELSE <<>>)
    \o (IF outcome.kind = "ok" /\ ~IsList(outcome.json)
        THEN IfDebug(<<Rec("debug", "Device response: %s",
                   JsonStrings(log_sensitive_data(outcome.json)))>>)
        ELSE <<>>)
    \o (IF IsAiohttpClientError(outcome)
        THEN <<Rec("error", "Device request failed: %s - %s", TokSet(url) \cup {outcome.text})>>
        ELSE <<>>)
    \o (IF name = "watch_channel" /\ device_result(outcome).status = "returned"
        THEN <<Rec("info", "Channel watch request completed for channel: %s", {arg})>>
        ELSE <<>>)

(* What an exchange can come to next.  `async with session.request(...)`   *)
(* resumes with the response head (a 2xx one is its own step; on another   *)
(* status raise_for_status raises at once) or fails; after the head,       *)
(* `await response.json()` returns the payload or fails.                   *)
Arrives(head, outcome) ==
    IF head THEN outcome.kind # "http_error" ELSE outcome.kind # "ok"

(* A DeviceClient is constructed from a mapping, or from the bundle the    *)
(* last authenticate call returned.                                        *)
NewClient(credentials) ==
    /\ devPc # "wait"
    /\ client' = TabloClient(credentials)
    /\ logrecs' = LogStart(init_records(TabloClient(credentials)))
    /\ UNCHANGED <<now, debug, levels, devPc, devOp, devLog, cloudLog, devResp, devResult,
                   devCalls, devSessions, devHead, authVars, flowVars, svc, hass>>

(* A device call enters _request_device: the request is handed to the      *)
(* session, which refuses a URL without a host at once.  get_server_info   *)
(* and watch_channel run the call inside their own ClientSession; a direct *)
(* caller of _request_device passes a session of its own.                  *)
StartDeviceCall(name, arg, method, path, body) ==
    LET req  == device_request(client, method, path, body, now)
        open == IF name = "_request_device" THEN devSessions
                ELSE session_enter(devSessions)
    IN  /\ devPc # "wait"
        /\ devCalls < MaxDeviceCalls
        /\ devCalls' = devCalls + 1
        /\ devHead' = FALSE
        /\ devOp' = [name |-> name, arg |-> arg, method |-> method, path |-> path,
                      body |-> body, device_url |-> client.device_url]
        /\ devResp' = <<>>
        /\ cloudLog' = <<>>
        /\ IF HasHost(req.url)
           THEN /\ devLog' = <<LogEntry(name, req, now)>>
                /\ devPc' = "wait"
                /\ devResult' = NoResult
                /\ devSessions' = open
           ELSE /\ devLog' = <<>>
                /\ devPc' = "done"
                /\ devResult' = device_result(InvalidURL)
                /\ devSessions' = IF name = "_request_device" THEN open
                                  ELSE session_exit(open, device_result(InvalidURL))
        /\ logrecs' = LogStart(device_request_records(client, name, arg, method, path,
                                                      body, now))
        /\ UNCHANGED <<now, debug, levels, client, authVars, flowVars, svc, hass>>

(* TabloClient.get_server_info *)
get_server_info ==
    StartDeviceCall("get_server_info", NONE, "GET", SERVER_INFO_PATH, NoBody)

(* TabloClient.watch_channel *)
watch_channel(channel_id) ==
    StartDeviceCall("watch_channel", channel_id, "POST",
                    WATCH_CHANNEL_PATH(channel_id), Dict(<<>>))

(* TabloClient._request_device called with a body of the caller's *)
request_device(method, path, body) ==
    StartDeviceCall("_request_device", NONE, method, path, body)

(* The response head of the pending exchange of the device client arrives  *)
(* with a 2xx status: the status is logged and the call awaits the body.   *)
DeviceHead ==
    /\ devPc = "wait"
    /\ ~devHead
    /\ devHead' = TRUE
    /\ logrecs' = LogMore(IF devOp.name = "get_channels"
                          THEN <<Rec("debug", "Cloud API response status: %s", {"200"})>>
                          ELSE <<Rec("debug", "Device response status: %s", {"200"})>>)
    /\ UNCHANGED <<now, debug, levels, client, devPc, devOp, devLog, cloudLog, devResp,
                   devResult, devCalls, devSessions, authVars, flowVars, svc, hass>>

(* The exchange of the pending device call has its outcome and the call    *)
(* ends: _request_device returns or raises, and so does its caller.        *)
DeviceRespond(outcome) ==
    /\ devPc = "wait"
    /\ devOp.name # "get_channels"
    /\ Arrives(devHead, outcome)
    /\ devHead' = FALSE
    /\ devPc' = "done"
    /\ devResp' = Append(devResp, outcome)
    /\ devResult' = device_result(outcome)
    /\ devSessions' = IF devOp.name = "_request_device" THEN devSessions
                      ELSE session_exit(devSessions, device_result(outcome))
    /\ logrecs' = LogMore(device_response_records(devOp.name, devOp.arg,
                                          devLog[1].req.url, outcome))
    /\ UNCHANGED <<now, debug, levels, client, devOp, devLog, cloudLog, devCalls,
                   authVars, flowVars, svc, hass>>

-----------------------------------------------------------------------------
(* authenticate: inputs. *)
Usernames == {"user@example.com"}
Passwords == {"pw-1", "pw-2"}

LoginResponses ==
    { [access_token |-> "tokA", token_type |-> "Bearer"],
      [code |-> NONE, access_token |-> "tokB", token_type |-> "Bearer"],
      [code |-> "401", message |-> "Bad credentials"],
      [code |-> "401"],
      [code |-> "423", message |-> "Account locked",
       access_token |-> "tokA", token_type |-> "Bearer"],
      [access_token |-> "tokA"],
      [access_token |-> "", token_type |-> "Bearer"],
      JList(<<"maintenance">>) }

P1 == [identifier |-> "prof-1", name |-> "Main"]
P2 == [identifier |-> "prof-2", name |-> "Kids"]
P_NOID == [name |-> "Broken"]
D1 == [serverId |-> "SID-1", name |-> "Living room", url |-> U_PLAIN]
D2 == [serverId |-> "SID-2", name |-> "Den", url |-> U_SLASH]
D_NOURL == [serverId |-> "SID-3", name |-> "Attic"]
D_EMPTYURL == [serverId |-> "SID-4", name |-> "Shed", url |-> U_EMPTY]

AccountResponses ==
    { [identifier |-> "acct-1", profiles |-> <<P1, P2>>, devices |-> <<D1, D2>>],
      [identifier |-> "acct-2", profiles |-> <<P2>>, devices |-> <<D2, D1>>],
      [profiles |-> <<P1>>, devices |-> <<D_NOURL>>],
      [identifier |-> "acct-2", profiles |-> <<P2>>, devices |-> <<D_EMPTYURL>>],
      [code |-> "500", message |-> "Account unavailable"],
      [code |-> "500", profiles |-> <<P1>>, devices |-> <<D1>>],
      [identifier |-> "acct-1", profiles |-> <<>>, devices |-> <<D1>>],
      [identifier |-> "acct-1", profiles |-> <<P1>>],
      [identifier |-> "acct-1", profiles |-> <<P_NOID>>, devices |-> <<D1>>],
      [identifier |-> "acct-1", devices |-> <<D1>>],
      [identifier |-> "acct-1", profiles |-> <<P1>>, devices |-> <<>>],
      JList(<<P1>>) }

SelectResponses == { [token |-> "lh-1"], [token |-> ""], <<>>, JList(<<"lh-1">>) }

CloudOutcomes(payloads) == {Ok(j) : j \in payloads} \cup Failures

(* uuid.uuid4(): a value no earlier call has drawn *)
UUIDS == <<"uuid-1", "uuid-2", "uuid-3", "uuid-4">>

(* Mutant of the UUID: the same value at every call *)
uuid4_constant(n) == UUIDS[1]

uuid4(n) == UUIDS[n]

(* Python truthiness of a string-or-None value *)
Falsy(v) == v = NONE \/ v = ""

-----------------------------------------------------------------------------
(* TabloClient._request_cloud_static up to session.request: the request.   *)
(* `headers` is << >> for None; `body` is [present, body].                 *)
NoData == [present |-> FALSE, body |-> <<>>]
Data(b) == [present |-> TRUE, body |-> b]

cloud_request(method, path, headers, body) ==
    LET h0 == ("User-Agent" :> USER_AGENT) @@ ("Accept" :> ACCEPT_HEADER)
              @@ ("Content-Type" :> CONTENT_TYPE_JSON)
    IN  [ method  |-> method,
          url     |-> <<"https://", CLOUD_API_HOST, path>>,
          headers |-> IF DOMAIN headers # {} THEN Update(h0, headers) ELSE h0,
          data    |-> body ]

(* TabloClient._request_cloud_static from session.request on *)
cloud_result(outcome) ==
    IF outcome.kind = "ok" THEN Returned(outcome.json)
    ELSE IF IsAiohttpClientError(outcome)
         THEN Raised("TabloConnectionError", <<"Cloud API request failed: ", outcome.text>>)
         ELSE Raised("TimeoutError", <<>>)

(* The try/except around each cloud call of authenticate: a               *)
(* TabloConnectionError is re-raised as TabloAuthenticationError with the  *)
(* step's prefix; anything else passes through.                           *)
wrap_connection_error(prefix, r) ==
    IF r.exc = "TabloConnectionError"
    THEN Raised("TabloAuthenticationError", <<prefix>> \o r.msg)
    ELSE r

(* Mutants of the checks: the `code` of the login response is not looked   *)
(* at; the `code` of the account response is not looked at; the token of   *)
(* the select response is not required.                                    *)
login_error_code_ignored(resp) ==
    IF Falsy(Get(resp, "access_token", NONE)) \/ Falsy(Get(resp, "token_type", NONE))
    THEN Raised("TabloAuthenticationError", <<"Invalid login response">>)
    ELSE NoResult

account_error_code_ignored(resp) ==
    LET profiles == Get(resp, "profiles", <<>>)
        devices  == Get(resp, "devices", <<>>)
    IN  IF Len(profiles) = 0
        THEN Raised("TabloAuthenticationError", <<"No profiles found">>)
        ELSE IF Len(devices) = 0
        THEN Raised("TabloAuthenticationError", <<"No devices found">>)
        ELSE IF "identifier" \notin DOMAIN profiles[1]
        THEN Raised("KeyError", <<"identifier">>)
        ELSE IF "serverId" \notin DOMAIN devices[1]
        THEN Raised("KeyError", <<"serverId">>)
        ELSE NoResult

select_error_token_optional(resp) == NoResult

(* Further mutants: the login tokens and the select token are compared     *)
(* with None instead of tested for truth; the account failure always       *)
(* carries the default message.                                            *)
login_error_none_only(resp) ==
    IF Get(resp, "code", NONE) # NONE
    THEN Raised("TabloAuthenticationError", <<Get(resp, "message", "Invalid credentials")>>)
    ELSE IF Get(resp, "access_token", NONE) = NONE \/ Get(resp, "token_type", NONE) = NONE
    THEN Raised("TabloAuthenticationError", <<"Invalid login response">>)
    ELSE NoResult

account_error_default_message(resp) ==
    LET profiles == Get(resp, "profiles", <<>>)
        devices  == Get(resp, "devices", <<>>)
    IN  IF Get(resp, "code", NONE) # NONE
        THEN Raised("TabloAuthenticationError", <<"Failed to get account info">>)
        ELSE IF Len(profiles) = 0
        THEN Raised("TabloAuthenticationError", <<"No profiles found">>)
        ELSE IF Len(devices) = 0
        THEN Raised("TabloAuthenticationError", <<"No devices found">>)
        ELSE IF "identifier" \notin DOMAIN profiles[1]
        THEN Raised("KeyError", <<"identifier">>)
        ELSE IF "serverId" \notin DOMAIN devices[1]
        THEN Raised("KeyError", <<"serverId">>)
        ELSE NoResult

select_error_none_only(resp) ==
    IF Get(resp, "token", NONE) = NONE
    THEN Raised("TabloAuthenticationError", <<"Failed to get Lighthouse token">>)
    ELSE NoResult

(* The checks of authenticate on the login response: the error raised, or  *)
(* NoResult when the response passes.                                      *)
login_error(resp) ==
    IF IsList(resp) THEN AttributeError("get")
    ELSE IF Get(resp, "code", NONE) # NONE
    THEN Raised("TabloAuthenticationError", <<Get(resp, "message", "Invalid credentials")>>)
    ELSE IF Falsy(Get(resp, "access_token", NONE)) \/ Falsy(Get(resp, "token_type", NONE))
    THEN Raised("TabloAuthenticationError", <<"Invalid login response">>)
    ELSE NoResult

(* The checks on the account response, up to the building of select_body *)
account_error(resp) ==
    LET profiles == Get(resp, "profiles", <<>>)
        devices  == Get(resp, "devices", <<>>)
    IN  IF IsList(resp) THEN AttributeError("get")
        ELSE IF Get(resp, "code", NONE) # NONE
        THEN Raised("TabloAuthenticationError",
                    <<Get(resp, "message", "Failed to get account info")>>)
        ELSE IF Len(profiles) = 0
        THEN Raised("TabloAuthenticationError", <<"No profiles found">>)
        ELSE IF Len(devices) = 0
        THEN Raised("TabloAuthenticationError", <<"No devices found">>)
        ELSE IF "identifier" \notin DOMAIN first(profiles)
        THEN Raised("KeyError", <<"identifier">>)
        ELSE IF "serverId" \notin DOMAIN first(devices)
        THEN Raised("KeyError", <<"serverId">>)
        ELSE NoResult

(* The check on the account-select response *)
select_error(resp) ==
    IF IsList(resp) THEN AttributeError("get")
    ELSE IF Falsy(Get(resp, "token", NONE))
    THEN Raised("TabloAuthenticationError", <<"Failed to get Lighthouse token">>)
    ELSE NoResult

(* Mutant of the bundle: the lighthouse entry holds the authorization *)
credentials_lighthouse_from_login(a, tuners) ==
    [ lighthousetv_authorization |-> a.authorization,
      lighthousetv_identifier    |-> Get(a.account_response, "identifier", ""),
      profile    |-> a.profile,
      device     |-> a.device,
      lighthouse |-> a.authorization,
      uuid       |-> a.device_uuid,
      tuners     |-> tuners ]

(* The bundle authenticate returns *)
credentials(a, tuners) ==
    [ lighthousetv_authorization |-> a.authorization,
      lighthousetv_identifier    |-> Get(a.account_response, "identifier", ""),
      profile    |-> a.profile,
      device     |-> a.device,
      lighthouse |-> a.lighthouse,
      uuid       |-> a.device_uuid,
      tuners     |-> tuners ]

(* authenticate ends *)
AuthEnd(result) ==
    /\ authPc' = "done"
    /\ authResult' = result
    /\ authSessions' = session_exit(authSessions, result)

(* Mutant of the static request's logging: the body is logged as it is *)
static_request_records_with_body(req) ==
    IfDebug(
        <<Rec("debug", "Cloud API request: %s %s", {req.method} \cup TokSet(req.url)),
          Rec("debug", "Request headers: %s",
              {Update(req.headers, "Authorization" :> REDACTED)[k] : k \in DOMAIN req.headers})>>
        \o (IF req.data.present
            THEN <<Rec("debug", "Request body: %s", JsonStrings(req.data.body[2]))>>
            ELSE <<>>))

(* The records of _request_cloud_static up to session.request: the URL and *)
(* the headers with the Authorization masked; the body is not logged.      *)
static_request_records(req) ==
    IfDebug(
        <<Rec("debug", "Cloud API request: %s %s", {req.method} \cup TokSet(req.url)),
          Rec("debug", "Request headers: %s",
              {(IF "Authorization" \in DOMAIN req.headers
                THEN Update(req.headers, "Authorization" :> REDACTED)
                ELSE req.headers)[k] : k \in DOMAIN req.headers})>>)

(* The records of _request_cloud_static once the exchange has its         *)
(* outcome; the status of a 2xx response was logged when its head arrived. *)
static_response_records(url, outcome) ==
    (IF outcome.kind = "http_error"
     THEN IfDebug(<<Rec("debug", "Response status: %s", {"500"})>>)
     ELSE <<>>)
    \o (IF IsAiohttpClientError(outcome)
        THEN <<Rec("error", "Cloud API request failed: %s - %s",
                   TokSet(url) \cup {outcome.text})>>
        ELSE <<>>)

(* The records of _request_cloud up to session.request: the URL, the       *)
(* headers with the Authorization masked and the Lighthouse cut to eight   *)
(* characters, and the sanitized body if there is one.                     *)
cloud_request_records(req) ==
    LET h1 == IF "Authorization" \in DOMAIN req.headers
              THEN Update(req.headers, "Authorization" :> REDACTED)
              ELSE req.headers
        h2 == IF "Lighthouse" \in DOMAIN h1
              THEN Update(h1, "Lighthouse" :> Truncated(h1["Lighthouse"]))
              ELSE h1
    IN  <<Rec("debug", "Making %s request to cloud API: %s",
              {req.method} \cup TokSet(req.url))>>
        \o IfDebug(
               <<Rec("debug", "Request headers: %s", {h2[k] : k \in DOMAIN h2})>>
               \o (IF req.data.present
                   THEN <<Rec("debug", "Request body: %s",
                              JsonStrings(log_sensitive_data(req.data.body[2])))>>
                   ELSE <<>>))

(* The records of _request_cloud once the exchange has its outcome; the    *)
(* status of a 2xx response was logged when its head arrived.              *)
cloud_response_records(url, outcome) ==
    (IF outcome.kind = "http_error"
     THEN <<Rec("debug", "Cloud API response status: %s", {"500"})>>
     ELSE <<>>)
    \o (IF outcome.kind = "ok" /\ ~IsList(outcome.json)
        THEN IfDebug(<<Rec("debug", "Cloud API response: %s",
                   JsonStrings(log_sensitive_data(outcome.json)))>>)
        ELSE <<>>)
    \o (IF IsAiohttpClientError(outcome)
        THEN <<Rec("error", "Cloud API request failed: %s - %s",
                   TokSet(url) \cup {outcome.text})>>
        ELSE <<>>)

(* The records of authenticate up to its first await *)
begin_records(username, req) ==
    <<Rec("info", "Starting Tablo authentication for user: %s", {username}),
      Rec("debug", "Step 1: Authenticating with Tablo cloud API", {})>>
    \o static_request_records(req)

(* The records of authenticate from the login response to the next await *)
login_records(url, outcome, next_req) ==
    LET r == cloud_result(outcome)
    IN  static_response_records(url, outcome)
        \o (IF r.exc = "TabloConnectionError"
            THEN <<Rec("error", "Login failed: %s", TokSet(r.msg))>>
            ELSE IF r.status = "raised" THEN <<>>
            ELSE <<Rec("debug", "Login response received", {})>>
                 \o (IF IsList(r.value) THEN <<>>
                     ELSE IF Get(r.value, "code", NONE) # NONE
                     THEN <<Rec("error", "Authentication failed: %s",
                                {Get(r.value, "message", "Invalid credentials")})>>
                     ELSE IF login_error(r.value).status = "raised"
                     THEN <<Rec("error",
                                "Invalid login response: missing access_token or token_type",
                                {})>>
                     ELSE <<Rec("info", "Authentication successful, token received", {}),
                            Rec("debug", "Step 2: Fetching account information", {})>>
                          \o static_request_records(next_req)))

(* str() of a value that may be None *)
StrOrNone(v) == IF v = NONE THEN "None" ELSE v

(* The records of authenticate from the account response to the next await *)
account_records(url, outcome, next_req) ==
    LET r        == cloud_result(outcome)
        resp     == r.value
        profiles == Get(resp, "profiles", <<>>)
        devices  == Get(resp, "devices", <<>>)
        profile  == first(profiles)
        device   == first(devices)
    IN  static_response_records(url, outcome)
        \o (IF r.exc = "TabloConnectionError"
            THEN <<Rec("error", "Account fetch failed: %s", TokSet(r.msg))>>
            ELSE IF r.status = "raised" THEN <<>>
            ELSE <<Rec("debug", "Account info received", {})>>
                 \o (IF IsList(resp) THEN <<>>
                     ELSE IF Get(resp, "code", NONE) # NONE
                     THEN <<Rec("error", "Account fetch error: %s",
                                {Get(resp, "message", "Failed to get account info")})>>
                     ELSE IF Len(profiles) = 0
                     THEN <<Rec("error", "No profiles found in account", {})>>
                     ELSE <<Rec("info", "Selected profile: %s (ID: %s)",
                                {StrOrNone(Get(profile, "name", NONE)),
                                 StrOrNone(Get(profile, "identifier", NONE))})>>
                          \o (IF Len(devices) = 0
                              THEN <<Rec("error", "No devices found in account", {})>>
                              ELSE <<Rec("info", "Selected device: %s (Server ID: %s) at %s",
                                         {StrOrNone(Get(device, "name", NONE)),
                                          StrOrNone(Get(device, "serverId", NONE))}
                                         \cup (IF "url" \in DOMAIN device
                                               THEN TokSet(device["url"]) ELSE {"None"})),
                                     Rec("debug",
                                         "Step 3: Selecting profile and device to get Lighthouse token",
                                         {})>>
                                   \o (IF account_error(resp).status = "raised" THEN <<>>
                                       ELSE static_request_records(next_req)))))

-----------------------------------------------------------------------------
(* TabloClient.authenticate, one action per await.                         *)

(* Entry and step 1: the session is opened and the login request issued. *)
authenticate_begin(username, password) ==
    /\ authPc \in {"idle", "done"}
    /\ authCalls < MaxAuthCalls
    /\ authCalls' = authCalls + 1
    /\ authHead' = FALSE
    /\ auth' = [ username |-> username, password |-> password,
                 authorization |-> "", account_response |-> <<>>,
                 profile |-> <<>>, device |-> <<>>,
                 lighthouse |-> "", device_uuid |-> "" ]
    /\ authLog' = << LogEntry("login",
                       cloud_request("POST", LOGIN_PATH, <<>>,
                           Data(json_dumps([email |-> username, password |-> password]))),
                       now) >>
    /\ authResp' = <<>>
    /\ authResult' = NoResult
    /\ authPc' = "login"
    /\ authSessions' = session_enter(authSessions)
    /\ logrecs' = LogStart(begin_records(username,
                      cloud_request("POST", LOGIN_PATH, <<>>,
                          Data(json_dumps([email |-> username, password |-> password])))))

(* TabloClient.authenticate called on its own *)
authenticate(username, password) ==
    /\ authenticate_begin(username, password)
    /\ UNCHANGED <<now, debug, levels, devVars, flowVars, svc, hass>>

(* The response head of the pending exchange of authenticate arrives with  *)
(* a 2xx status: _request_cloud_static logs it under the debug flag, the   *)
(* probe's _request_device at level DEBUG; the call awaits the body.       *)
AuthHead ==
    /\ authPc \in {"login", "account", "select", "probe"}
    /\ ~authHead
    /\ authHead' = TRUE
    /\ logrecs' = LogMore(IF authPc = "probe"
                          THEN <<Rec("debug", "Device response status: %s", {"200"})>>
                          ELSE IfDebug(<<Rec("debug", "Response status: %s", {"200"})>>))
    /\ UNCHANGED <<now, debug, levels, authPc, auth, authLog, authResp, authResult,
                   authCalls, authSessions, devVars, flowVars, svc, hass>>

(* The login exchange ends; its response is checked; step 2 is issued. *)
LoginRespond(outcome) ==
    LET r    == cloud_result(outcome)
        resp == r.value
    IN  /\ authPc = "login"
        /\ Arrives(authHead, outcome)
        /\ authHead' = FALSE
        /\ authResp' = Append(authResp, outcome)
        /\ IF r.status = "raised"
           THEN /\ AuthEnd(wrap_connection_error("Login failed: ", r))
                /\ UNCHANGED <<auth, authLog>>
           ELSE IF login_error(resp).status = "raised"
           THEN /\ AuthEnd(login_error(resp))
                /\ UNCHANGED <<auth, authLog>>
           ELSE LET authorization == resp["token_type"] \o " " \o resp["access_token"]
                IN  /\ auth' = [auth EXCEPT !.authorization = authorization]
                    /\ authLog' = Append(authLog, LogEntry("account",
                           cloud_request("GET", ACCOUNT_PATH,
                               "Authorization" :> authorization, NoData), now))
                    /\ authPc' = "account"
                    /\ UNCHANGED <<authResult, authSessions>>
        /\ logrecs' = LogMore(login_records(authLog[1].req.url, outcome,
                           cloud_request("GET", ACCOUNT_PATH,
                               "Authorization" :>
                                   (resp["token_type"] \o " " \o resp["access_token"]),
                               NoData)))
        /\ UNCHANGED <<now, debug, levels, authCalls, devVars, flowVars, svc, hass>>

(* The account exchange ends; profile and device are selected; step 3 *)
AccountRespond(outcome) ==
    LET r        == cloud_result(outcome)
        resp     == r.value
        profiles == Get(resp, "profiles", <<>>)
        devices  == Get(resp, "devices", <<>>)
        profile  == first(profiles)
        device   == first(devices)
    IN  /\ authPc = "account"
        /\ Arrives(authHead, outcome)
        /\ authHead' = FALSE
        /\ authResp' = Append(authResp, outcome)
        /\ IF r.status = "raised"
           THEN /\ AuthEnd(wrap_connection_error("Account fetch failed: ", r))
                /\ UNCHANGED <<auth, authLog>>
           ELSE IF account_error(resp).status = "raised"
           THEN /\ AuthEnd(account_error(resp))
                /\ UNCHANGED <<auth, authLog>>
           ELSE /\ auth' = [auth EXCEPT !.account_response = resp,
                                        !.profile = profile, !.device = device]
                /\ authLog' = Append(authLog, LogEntry("select",
                       cloud_request("POST", ACCOUNT_SELECT_PATH,
                           "Authorization" :> auth.authorization,
                           Data(json_dumps([pid |-> profile["identifier"],
                                            sid |-> device["serverId"]]))), now))
                /\ authPc' = "select"
                /\ UNCHANGED <<authResult, authSessions>>
        /\ logrecs' = LogMore(account_records(authLog[2].req.url, outcome,
                           cloud_request("POST", ACCOUNT_SELECT_PATH,
                               "Authorization" :> auth.authorization,
                               Data(json_dumps([pid |-> profile["identifier"],
                                                sid |-> device["serverId"]])))))
        /\ UNCHANGED <<now, debug, levels, authCalls, devVars, flowVars, svc, hass>>

(* Step 5 and the return: how authenticate ends once the probe has ended   *)
(* as r (the result of get_server_info).                                   *)
probe_end_default_tuners(a, r) ==
    IF r.status = "returned" /\ IsList(r.value)
    THEN AttributeError("get")
    ELSE IF r.status = "returned" \/ r.exc = "TabloConnectionError"
         THEN Returned(credentials(a, 2))
         ELSE r

probe_end(a, r) ==
    IF r.status = "returned" /\ IsList(r.value)
    THEN AttributeError("get")
    ELSE IF r.status = "returned"
    THEN Returned(credentials(a, Get(Get(r.value, "model", <<>>), "tuners", 2)))
    ELSE IF r.exc = "TabloConnectionError"
         THEN Returned(credentials(a, 2))
         ELSE r

(* The records of authenticate's return *)
end_records(creds) ==
    <<Rec("info", "Authentication completed successfully", {})>>
    \o IfDebug(<<Rec("debug", "Credentials structure: %s",
                     JsonStrings(log_sensitive_data(creds)))>>)

(* The records of authenticate once the probe has ended as r *)
probe_end_records(a, r) ==
    LET device_url == Get(a.device, "url", <<>>)
    IN  IF r.status = "returned" /\ IsList(r.value) THEN <<>>
        ELSE IF r.status = "returned"
        THEN <<Rec("info", "Device verified: %s with %d tuner(s)",
                   {Get(Get(r.value, "model", <<>>), "name", "Unknown")})>>
             \o end_records(probe_end(a, r).value)
        ELSE IF r.exc = "TabloConnectionError"
        THEN <<Rec("warning",
                   "Could not connect to device at %s during setup (this is OK): %s. Using default tuner count (2). Device connection will be attempted when needed.",
                   TokSet(device_url) \cup TokSet(r.msg))>>
             \o end_records(probe_end(a, r).value)
        ELSE <<>>

(* The records of authenticate from the select response to the probe's     *)
(* await, or to the return when there is no probe.                         *)
select_records(url, outcome, a, temp_client, t) ==
    LET r          == cloud_result(outcome)
        device_url == Get(a.device, "url", <<>>)
        req        == device_request(temp_client, "GET", SERVER_INFO_PATH, NoBody, t)
    IN  static_response_records(url, outcome)
        \o (IF r.exc = "TabloConnectionError"
            THEN <<Rec("error", "Device selection failed: %s", TokSet(r.msg))>>
            ELSE IF r.status = "raised" THEN <<>>
            ELSE <<Rec("debug", "Device selection response received", {})>>
                 \o (IF IsList(r.value) THEN <<>>
                     ELSE IF select_error(r.value).status = "raised"
                     THEN <<Rec("error", "Failed to get Lighthouse token from response", {})>>
                     ELSE <<Rec("info", "Lighthouse token obtained", {}),
                            Rec("debug", "Generated device UUID: %s", {a.device_uuid}),
                            Rec("debug",
                                "Step 5: Optionally verifying connection to local device", {})>>
                          \o (IF Len(device_url) = 0
                              THEN <<Rec("warning",
                                         "Device URL not found in device info, using default tuner count",
                                         {})>>
                                   \o end_records(credentials(a, 2))
                              ELSE init_records(temp_client)
                                   \o <<Rec("debug",
                                             "Attempting to connect to device at %s (optional verification)",
                                             TokSet(device_url))>>
                                   \o device_request_records(temp_client, "get_server_info",
                                          NONE, "GET", SERVER_INFO_PATH, NoBody, t)
                                   \o (IF HasHost(req.url) THEN <<>>
                                       ELSE probe_end_records(a, device_result(InvalidURL))))))

(* get_server_info of the probe ends as r with `open` sessions open: its   *)
(* session is closed, then authenticate ends and closes its own.           *)
ProbeEnd(a, open, r) ==
    /\ authPc' = "done"
    /\ authResult' = probe_end(a, r)
    /\ authSessions' = session_exit(session_exit(open, r), probe_end(a, r))

(* The select exchange ends; the UUID is generated; the probe is issued    *)
(* unless the device has no URL.                                           *)
SelectRespond(outcome) ==
    LET r          == cloud_result(outcome)
        resp       == r.value
        lighthouse == Get(resp, "token", NONE)
        a          == [auth EXCEPT !.lighthouse = lighthouse,
                                   !.device_uuid = uuid4(authCalls)]
        device_url == Get(auth.device, "url", <<>>)
        temp_client == TabloClient(
            [ device |-> a.device, uuid |-> a.device_uuid,
              lighthouse |-> a.lighthouse,
              lighthousetv_authorization |-> a.authorization,
              lighthousetv_identifier |-> Get(a.account_response, "identifier", "") ])
        req == device_request(temp_client, "GET", SERVER_INFO_PATH, NoBody, now)
    IN  /\ authPc = "select"
        /\ Arrives(authHead, outcome)
        /\ authHead' = FALSE
        /\ authResp' = Append(authResp, outcome)
        /\ IF r.status = "raised"
           THEN /\ AuthEnd(wrap_connection_error("Device selection failed: ", r))
                /\ UNCHANGED <<auth, authLog>>
           ELSE IF select_error(resp).status = "raised"
           THEN /\ AuthEnd(select_error(resp))
                /\ UNCHANGED <<auth, authLog>>
           ELSE IF Len(device_url) = 0
           THEN /\ AuthEnd(Returned(credentials(a, 2)))
                /\ auth' = a
                /\ UNCHANGED authLog
           ELSE IF ~HasHost(req.url)
           THEN /\ ProbeEnd(a, session_enter(authSessions), device_result(InvalidURL))
                /\ auth' = a
                /\ UNCHANGED authLog
           ELSE /\ auth' = a
                /\ authLog' = Append(authLog, LogEntry("probe", req, now))
                /\ authPc' = "probe"
                /\ authSessions' = session_enter(authSessions)
                /\ UNCHANGED authResult
        /\ logrecs' = LogMore(select_records(authLog[3].req.url, outcome, a,
                                                        temp_client, now))
        /\ UNCHANGED <<now, debug, levels, authCalls, devVars, flowVars, svc, hass>>

(* The probe's exchange ends and authenticate with it. *)
ProbeRespond(outcome) ==
    /\ authPc = "probe"
    /\ Arrives(authHead, outcome)
    /\ authHead' = FALSE
    /\ authResp' = Append(authResp, outcome)
    /\ ProbeEnd(auth, authSessions, device_result(outcome))
    /\ logrecs' = LogMore(
                      device_response_records("get_server_info", NONE,
                                              authLog[4].req.url, outcome)
                      \o probe_end_records(auth, device_result(outcome)))
    /\ UNCHANGED <<now, debug, levels, auth, authLog, authCalls, devVars, flowVars, svc, hass>>

-----------------------------------------------------------------------------
(* TabloClient.get_channels.                                               *)

(* Channel lineups of the cloud, and payloads that are not a list. *)
CH1 == [identifier |-> "S7_1", name |-> "KABC", major |-> 7, minor |-> 1]
CH2 == [identifier |-> "abc123", name |-> "KXYZ", major |-> 11, minor |-> 2]

ChannelPayloads ==
    { JList(<<CH1, CH2>>), JList(<<>>),
      [code |-> "401", message |-> "Unauthorized"], <<>> }

(* TabloClient._request_cloud from session.request on: as the static       *)
(* variant, and with debug logging the payload goes through                *)
(* log_sensitive_data before it is returned.                               *)
request_cloud_result(outcome) ==
    IF /\ outcome.kind = "ok"
       /\ is_debug_enabled
       /\ log_sensitive_data_error(outcome.json).status = "raised"
    THEN log_sensitive_data_error(outcome.json)
    ELSE cloud_result(outcome)

(* What get_channels returns for the payload `response` *)
channels_value(response) ==
    IF IsList(response) THEN response ELSE JList(<<>>)

(* Mutant of the lineup request: the token of an earlier client is used *)
channels_request_stale(c) ==
    cloud_request("GET", CHANNELS_PATH("lh-p"),
                  ("Authorization" :> c.authorization) @@ ("Lighthouse" :> "lh-p"),
                  NoData)

(* The lineup request get_channels hands to _request_cloud on client c *)
channels_request(c) ==
    cloud_request("GET", CHANNELS_PATH(c.lighthouse),
                  ("Authorization" :> c.authorization) @@ ("Lighthouse" :> c.lighthouse),
                  NoData)

(* The records of get_channels once _request_cloud has returned *)
channels_records(outcome) ==
    IF request_cloud_result(outcome).status # "returned" THEN <<>>
    ELSE IF IsList(outcome.json)
    THEN <<Rec("info", "Retrieved %d channels from cloud API", {})>>
    ELSE <<Rec("warning", "Unexpected response format from channels API: %s",
               {"<class 'dict'>"})>>

(* get_channels opens its session and issues the lineup request. *)
get_channels ==
    LET path == CHANNELS_PATH(client.lighthouse)
        req  == channels_request(client)
    IN  /\ devPc # "wait"
        /\ devCalls < MaxDeviceCalls
        /\ devCalls' = devCalls + 1
        /\ devHead' = FALSE
        /\ devOp' = [name |-> "get_channels", arg |-> NONE, method |-> "GET",
                      path |-> <<path>>, body |-> NoBody,
                      device_url |-> client.device_url]
        /\ devResp' = <<>>
        /\ devLog' = <<>>
        /\ cloudLog' = <<LogEntry("get_channels", req, now)>>
        /\ devPc' = "wait"
        /\ devResult' = NoResult
        /\ devSessions' = session_enter(devSessions)
        /\ logrecs' = LogStart(<<Rec("debug", "Fetching channel lineup from cloud API", {})>>
                              \o cloud_request_records(req))
        /\ UNCHANGED <<now, debug, levels, client, authVars, flowVars, svc, hass>>

(* The lineup exchange ends and get_channels with it. *)
ChannelsRespond(outcome) ==
    LET r      == request_cloud_result(outcome)
        result == IF r.status = "raised" THEN r
                  ELSE Returned(channels_value(r.value))
    IN  /\ devPc = "wait"
        /\ devOp.name = "get_channels"
        /\ Arrives(devHead, outcome)
        /\ devHead' = FALSE
        /\ devPc' = "done"
        /\ devResp' = Append(devResp, outcome)
        /\ devResult' = result
        /\ devSessions' = session_exit(devSessions, result)
        /\ logrecs' = LogMore(
                          cloud_response_records(cloudLog[1].req.url, outcome)
                          \o channels_records(outcome))
        /\ UNCHANGED <<now, debug, levels, client, devOp, devLog, cloudLog, devCalls,
                       authVars, flowVars, svc, hass>>

-----------------------------------------------------------------------------
(* The device calls of one DeviceClient. *)
NextDevice ==
    \/ Tick
    \/ \E enabled \in BOOLEAN : set_debug(enabled)
    \/ get_channels
    \/ \E o \in CloudOutcomes(ChannelPayloads) : ChannelsRespond(o)
    \/ \E c \in CredentialInputs : NewClient(c)
    \/ get_server_info
    \/ \E channel_id \in ChannelIds : watch_channel(channel_id)
    \/ \E method \in {"GET", "POST"}, body \in BodyInputs :
          request_device(method, WATCH_CHANNEL_PATH("abc123"), body)
    \/ DeviceHead
    \/ \E o \in DeviceOutcomes : DeviceRespond(o)

SpecDevice == Init /\ [][NextDevice]_vars

-----------------------------------------------------------------------------
(* config_flow.py: the setup flow.                                         *)

UserInputs == { [username |-> u, password |-> p] : u \in Usernames, p \in Passwords }

(* validate_auth: how it ends when authenticate has ended as r *)
validate_auth(r) ==
    IF r.status = "raised" /\ r.exc = "TabloAuthenticationError"
    THEN Raised("InvalidAuth", <<>>)
    ELSE r

(* Mutant of config_data: the password is stored with the rest *)
config_data_with_password(user_input, creds) ==
    LET device  == Get(creds, "device", <<>>)
        profile == Get(creds, "profile", <<>>)
    IN  [ username |-> user_input["username"],
          password |-> user_input["password"],
          device_url |-> Get(device, "url", <<>>),
          device_server_id |-> Get(device, "serverId", ""),
          profile_id |-> Get(profile, "identifier", ""),
          lighthouse |-> Get(creds, "lighthouse", ""),
          lighthousetv_authorization |-> Get(creds, "lighthousetv_authorization", ""),
          lighthousetv_identifier |-> Get(creds, "lighthousetv_identifier", ""),
          uuid |-> Get(creds, "uuid", ""),
          tuners |-> Get(creds, "tuners", 2),
          device_name |-> Get(device, "name", "Tablo Device") ]

(* config_data of async_step_user: what the config entry persists *)
config_data(user_input, creds) ==
    LET device  == Get(creds, "device", <<>>)
        profile == Get(creds, "profile", <<>>)
    IN  [ username |-> user_input["username"],
          device_url |-> Get(device, "url", <<>>),
          device_server_id |-> Get(device, "serverId", ""),
          profile_id |-> Get(profile, "identifier", ""),
          lighthouse |-> Get(creds, "lighthouse", ""),
          lighthousetv_authorization |-> Get(creds, "lighthousetv_authorization", ""),
          lighthousetv_identifier |-> Get(creds, "lighthousetv_identifier", ""),
          uuid |-> Get(creds, "uuid", ""),
          tuners |-> Get(creds, "tuners", 2),
          device_name |-> Get(device, "name", "Tablo Device") ]

(* Mutant of the reduced mapping: the URL is read under the bundle's key *)
service_credentials_wrong_key(data) ==
    [ device |-> [url |-> Get(data, "url", <<>>)],
      uuid |-> Get(data, "uuid", NONE),
      lighthouse |-> Get(data, "lighthouse", NONE),
      lighthousetv_authorization |-> Get(data, "lighthousetv_authorization", NONE) ]

(* services.py: the mapping the services rebuild from entry.data.  A       *)
(* missing device_url would be None, which TabloClient.__init__ treats as  *)
(* the empty string: both are falsy.                                       *)
service_credentials(data) ==
    [ device |-> [url |-> Get(data, "device_url", <<>>)],
      uuid |-> Get(data, "uuid", NONE),
      lighthouse |-> Get(data, "lighthouse", NONE),
      lighthousetv_authorization |-> Get(data, "lighthousetv_authorization", NONE) ]

(* async_show_form(step_id="user", errors=errors) *)
async_show_form(errors) == [type |-> "form", errors |-> errors]

(* async_create_entry(title=..., data=config_data) *)
async_create_entry(title, data) == [type |-> "create_entry", title |-> title, data |-> data]

(* async_step_user with user input, up to the await of authenticate in     *)
(* validate_auth.                                                          *)
async_step_user(user_input) ==
    /\ flow.pc = "form"
    /\ authenticate_begin(user_input["username"], user_input["password"])
    /\ flow' = [pc |-> "validating", user_input |-> user_input,
                 result |-> [type |-> "none"]]
    /\ UNCHANGED <<now, debug, levels, devVars, entries, svc, hass>>

(* async_step_user from the return of authenticate on.  The unique id is   *)
(* the device's server ID; _abort_if_unique_id_configured raises AbortFlow *)
(* inside the try block, where `except Exception` catches it.              *)
async_step_user_end ==
    LET r         == validate_auth(authResult)
        creds     == r.value
        device    == Get(creds, "device", <<>>)
        unique_id == Get(device, "serverId", "")
        data      == config_data(flow.user_input, creds)
        title     == <<"Tablo ", Get(device, "name", "Device")>>
    IN  /\ flow.pc = "validating"
        /\ authPc = "done"
        /\ IF r.status = "raised"
           THEN /\ flow' = [flow EXCEPT !.pc = "form", !.result =
                      async_show_form([base |-> IF r.exc = "InvalidAuth"
                                                THEN "invalid_auth" ELSE "unknown"])]
                /\ UNCHANGED entries
           ELSE IF \E e \in entries : e.unique_id = unique_id
           THEN /\ flow' = [flow EXCEPT !.pc = "form", !.result =
                      async_show_form([base |-> "unknown"])]
                /\ UNCHANGED entries
           ELSE /\ flow' = [flow EXCEPT !.pc = "form", !.result =
                      async_create_entry(title, data)]
                /\ entries' = entries \cup
                      {[unique_id |-> unique_id, title |-> title, data |-> data,
                        index |-> Cardinality(entries) + 1]}
        /\ UNCHANGED <<now, debug, levels, devVars, authVars, svc, hass, logrecs>>

(* The setup flows. *)
NextSetup ==
    \/ \E user_input \in UserInputs : async_step_user(user_input)
    \/ AuthHead
    \/ \E o \in CloudOutcomes(LoginResponses) : LoginRespond(o)
    \/ \E o \in CloudOutcomes(AccountResponses) : AccountRespond(o)
    \/ \E o \in CloudOutcomes(SelectResponses) : SelectRespond(o)
    \/ \E o \in {Ok(j) : j \in ServerInfos} \cup Failures : ProbeRespond(o)
    \/ async_step_user_end

SpecSetup == Init /\ [][NextSetup]_vars

(* The authenticate calls. *)
NextAuth ==
    \/ Tick
    \/ \E u \in Usernames, p \in Passwords : authenticate(u, p)
    \/ AuthHead
    \/ \E o \in CloudOutcomes(LoginResponses) : LoginRespond(o)
    \/ \E o \in CloudOutcomes(AccountResponses) : AccountRespond(o)
    \/ \E o \in CloudOutcomes(SelectResponses) : SelectRespond(o)
    \/ \E o \in {Ok(j) : j \in ServerInfos} \cup Failures : ProbeRespond(o)

SpecAuth == Init /\ [][NextAuth]_vars

(* The operations that open a ClientSession, side by side: an authenticate *)
(* call and the calls of a DeviceClient (get_channels, get_server_info,    *)
(* watch_channel) run as separate tasks of the event loop, and their       *)
(* exchanges interleave.                                                   *)
NextSessions ==
    \/ \E u \in Usernames, p \in Passwords : authenticate(u, p)
    \/ AuthHead
    \/ \E o \in CloudOutcomes(LoginResponses) : LoginRespond(o)
    \/ \E o \in CloudOutcomes(AccountResponses) : AccountRespond(o)
    \/ \E o \in CloudOutcomes(SelectResponses) : SelectRespond(o)
    \/ \E o \in {Ok(j) : j \in ServerInfos} \cup Failures : ProbeRespond(o)
    \/ get_channels
    \/ \E o \in CloudOutcomes(ChannelPayloads) : ChannelsRespond(o)
    \/ get_server_info
    \/ \E channel_id \in ChannelIds : watch_channel(channel_id)
    \/ DeviceHead
    \/ \E o \in DeviceOutcomes : DeviceRespond(o)

SpecSessions == Init /\ [][NextSessions]_vars

(* A lighthouse token longer than the eight characters the logged header  *)
(* keeps, the select response that issues it and the credentials that     *)
(* carry it.                                                               *)
LH_LONG == "lh-0123456789"

LoggingSelectResponses == SelectResponses \cup { [token |-> LH_LONG] }

LoggingCredentialInputs ==
    CredentialInputs
    \cup { [ lighthousetv_authorization |-> "Bearer tokA",
             lighthousetv_identifier |-> "acct-1",
             profile |-> [identifier |-> "prof-1", name |-> "Main"],
             device |-> [serverId |-> "SID-2", name |-> "Den", url |-> U_SLASH],
             lighthouse |-> LH_LONG, uuid |-> "uuid-1", tuners |-> 2 ] }

(* The calls under a handler that captures the log, with debug logging on  *)
(* or off.  A behaviour follows authenticate or the calls of a             *)
(* DeviceClient: the two share nothing but the logger.                     *)
InitLogging ==
    /\ InitCore
    /\ debug \in BOOLEAN
    /\ levels \in [package : IF debug THEN {"debug"} ELSE {"notset", "info"},
                    root : {"debug", "info", "warning"}]
    /\ entries = {}
    /\ hass = [data |-> <<>>, services |-> {}, options |-> <<>>]
    /\ logrecs = <<>>

NextLogging ==
    \/ devCalls = 0 /\ \E u \in Usernames, p \in Passwords : authenticate(u, p)
    \/ AuthHead
    \/ \E o \in CloudOutcomes(LoginResponses) : LoginRespond(o)
    \/ \E o \in CloudOutcomes(AccountResponses) : AccountRespond(o)
    \/ \E o \in CloudOutcomes(LoggingSelectResponses) : SelectRespond(o)
    \/ \E o \in {Ok(j) : j \in ServerInfos} \cup Failures : ProbeRespond(o)
    \/ authCalls = 0 /\ \E c \in LoggingCredentialInputs : NewClient(c)
    \/ authCalls = 0 /\ get_channels
    \/ \E o \in CloudOutcomes(ChannelPayloads) : ChannelsRespond(o)
    \/ authCalls = 0 /\ get_server_info
    \/ authCalls = 0 /\ \E channel_id \in ChannelIds : watch_channel(channel_id)
    \/ authCalls = 0 /\ \E body \in BodyInputs :
          request_device("POST", WATCH_CHANNEL_PATH("abc123"), body)
    \/ DeviceHead
    \/ \E o \in DeviceOutcomes : DeviceRespond(o)

SpecLogging == InitLogging /\ [][NextLogging]_vars

-----------------------------------------------------------------------------
(* __init__.py: the life cycle of the config entries.  The state it works  *)
(* on is Home Assistant's record and the debug flag of logger.py.          *)

SERVICE_SET_CHANNEL == "set_channel"
SERVICE_GET_CHANNELS == "get_channels"
SERVICE_STOP_STREAMING == "stop_streaming"
SERVICES == {SERVICE_SET_CHANNEL, SERVICE_GET_CHANNELS, SERVICE_STOP_STREAMING}

CONF_ENABLE_DEBUG == "enable_debug"

(* A config entry as async_step_user persists it *)
ConfigEntry(username, creds, index) ==
    [ unique_id |-> creds.device.serverId,
      title |-> <<"Tablo ", creds.device.name>>,
      data |-> config_data([username |-> username, password |-> "pw-1"], creds),
      index |-> index ]

Bundle(token, account, profile, device, uuid, tuners) ==
    [ lighthousetv_authorization |-> token,
      lighthousetv_identifier    |-> account,
      profile    |-> profile,
      device     |-> device,
      lighthouse |-> "lh-1",
      uuid       |-> uuid,
      tuners     |-> tuners ]

(* async_setup_services: the three services are registered *)
async_setup_services(h) == [h EXCEPT !.services = @ \cup SERVICES]

(* async_unload_services: the three services are removed, whatever else    *)
(* is loaded                                                               *)
async_unload_services(h) == [h EXCEPT !.services = @ \ SERVICES]

(* async_setup_entry on the state st = [hass, debug] *)
setup_entry(st, e) ==
    [ debug |-> Get(st.hass.options[e.index], CONF_ENABLE_DEBUG, FALSE),
      hass  |-> async_setup_services(
                    [st.hass EXCEPT !.data = (e.index :> e.data) @@ @]) ]

(* async_unload_entry on the state st = [hass, debug] *)
unload_entry(st, e) ==
    [ debug |-> FALSE,
      hass  |-> [async_unload_services(st.hass) EXCEPT
                    !.data = [id \in DOMAIN @ \ {e.index} |-> @[id]]] ]

(* Home Assistant sets up an entry that is not loaded. *)
async_setup_entry(e) ==
    LET st == setup_entry([hass |-> hass, debug |-> debug], e)
    IN  /\ e.index \notin DOMAIN hass.data
        /\ hass' = st.hass
        /\ debug' = st.debug
        /\ levels' = [levels EXCEPT !.package = level_of(st.debug)]
        /\ UNCHANGED <<now, devVars, authVars, flowVars, svc, logrecs>>

(* Home Assistant unloads a loaded entry. *)
async_unload_entry(e) ==
    LET st == unload_entry([hass |-> hass, debug |-> debug], e)
    IN  /\ e.index \in DOMAIN hass.data
        /\ hass' = st.hass
        /\ debug' = st.debug
        /\ levels' = [levels EXCEPT !.package = level_of(st.debug)]
        /\ UNCHANGED <<now, devVars, authVars, flowVars, svc, logrecs>>

(* async_reload_entry: the unload, then the setup, of a loaded entry. *)
async_reload_entry(e) ==
    LET st == setup_entry(unload_entry([hass |-> hass, debug |-> debug], e), e)
    IN  /\ e.index \in DOMAIN hass.data
        /\ hass' = st.hass
        /\ debug' = st.debug
        /\ levels' = [levels EXCEPT !.package = level_of(st.debug)]
        /\ UNCHANGED <<now, devVars, authVars, flowVars, svc, logrecs>>

(* OptionsFlowHandler.async_step_init with user input: the debug flag is   *)
(* set at once and the input becomes the entry's options.                  *)
async_step_init(e, user_input) ==
    /\ debug' = Get(user_input, CONF_ENABLE_DEBUG, FALSE)
    /\ levels' = [levels EXCEPT
                     !.package = level_of(Get(user_input, CONF_ENABLE_DEBUG, FALSE))]
    /\ hass' = [hass EXCEPT !.options[e.index] = user_input]
    /\ UNCHANGED <<now, devVars, authVars, flowVars, svc, logrecs>>

OptionInputs == { [enable_debug |-> TRUE], [enable_debug |-> FALSE], <<>> }

(* Three devices configured, none loaded yet. *)
LifecycleEntries ==
    { ConfigEntry("user@example.com", Bundle("Bearer tokA", "acct-1", P1, D1, "uuid-1", 4), 1),
      ConfigEntry("user@example.com", Bundle("Bearer tokB", "acct-2", P2, D2, "uuid-2", 4), 2),
      ConfigEntry("user@example.com", Bundle("Bearer tokA", "acct-2", P2, D_EMPTYURL, "uuid-3", 2), 3) }

InitEntries ==
    /\ InitCore
    /\ debug = FALSE
    /\ levels = [package |-> "notset", root |-> "warning"]
    /\ entries = LifecycleEntries
    /\ hass = [data |-> <<>>, services |-> {},
               options |-> [id \in {e.index : e \in entries} |-> <<>>]]
    /\ logrecs = NoCapture

NextEntries ==
    \/ \E e \in entries : async_setup_entry(e)
    \/ \E e \in entries : async_unload_entry(e)
    \/ \E e \in entries : async_reload_entry(e)
    \/ \E e \in entries, user_input \in OptionInputs : async_step_init(e, user_input)

SpecEntries == InitEntries /\ [][NextEntries]_vars

-----------------------------------------------------------------------------
(* services.py: the set_channel service.                                   *)

(* HomeAssistantError(message) raised *)
HomeAssistantError(msg) == Raised("HomeAssistantError", msg)

(* What `except TabloClientError` catches: the class and its subclasses *)
IsTabloClientError(r) ==
    /\ r.status = "raised"
    /\ r.exc \in {"TabloClientError", "TabloConnectionError", "TabloAuthenticationError"}

(* _get_config_entry: the first entry of the domain, or the error *)
get_config_entry(es) ==
    IF es = {} THEN HomeAssistantError(<<"Tablo integration not configured">>)
    ELSE Returned(CHOOSE e \in es : e.index = 1)

(* str() of a non-negative int *)
Digits == <<"0", "1", "2", "3", "4", "5", "6", "7", "8", "9">>

RECURSIVE str(_)
str(n) == IF n < 10 THEN Digits[n + 1] ELSE str(n \div 10) \o Digits[(n % 10) + 1]

(* f'{channel["ota"]["major"]}.{channel["ota"]["minor"]}' *)
chan_num(numbering) == str(numbering["major"]) \o "." \o str(numbering["minor"])

(* Mutant of the lookup loop: no break, the last match is kept *)
RECURSIVE lookup_last_match(_, _, _)
lookup_last_match(channels, channel_number, k) ==
    IF k > Len(channels) THEN Returned(NONE)
    ELSE LET channel == channels[k]
             kind    == Get(channel, "kind", NONE)
             rest    == lookup_last_match(channels, channel_number, k + 1)
         IN  IF kind \notin {"ota", "ott"} THEN rest
             ELSE IF kind \notin DOMAIN channel THEN Raised("KeyError", <<kind>>)
             ELSE IF "major" \notin DOMAIN channel[kind] THEN Raised("KeyError", <<"major">>)
             ELSE IF "minor" \notin DOMAIN channel[kind] THEN Raised("KeyError", <<"minor">>)
             ELSE IF chan_num(channel[kind]) # channel_number \/ rest.value # NONE THEN rest
             ELSE IF "identifier" \notin DOMAIN channel
                  THEN Raised("KeyError", <<"identifier">>)
                  ELSE Returned(channel["identifier"])

(* The loop over the lineup from its k-th channel on: the identifier of    *)
(* the first channel of kind ota or ott whose number equals               *)
(* channel_number, None when the loop ends without a match, or the         *)
(* KeyError of a channel that lacks a key the loop reads.                  *)
RECURSIVE lookup(_, _, _)
lookup(channels, channel_number, k) ==
    IF k > Len(channels) THEN Returned(NONE)
    ELSE LET channel == channels[k]
             kind    == Get(channel, "kind", NONE)
         IN  IF kind \notin {"ota", "ott"}
             THEN lookup(channels, channel_number, k + 1)
             ELSE IF kind \notin DOMAIN channel THEN Raised("KeyError", <<kind>>)
             ELSE IF "major" \notin DOMAIN channel[kind] THEN Raised("KeyError", <<"major">>)
             ELSE IF "minor" \notin DOMAIN channel[kind] THEN Raised("KeyError", <<"minor">>)
             ELSE IF chan_num(channel[kind]) # channel_number
                  THEN lookup(channels, channel_number, k + 1)
             ELSE IF "identifier" \notin DOMAIN channel
                  THEN Raised("KeyError", <<"identifier">>)
                  ELSE Returned(channel["identifier"])

(* TabloClient.get_channels from the end of its exchange on *)
get_channels_result(outcome) ==
    LET r == request_cloud_result(outcome)
    IN  IF r.status = "raised" THEN r ELSE Returned(channels_value(r.value))

(* A call the service makes at tick t: on the client (with the HTTP        *)
(* request it builds and whether the session accepted it) or on the Roku   *)
(* helper (and whether the helper went on to call roku.launch_app).        *)
Call(op, arg, req, sent, t) ==
    [op |-> op, arg |-> arg, req |-> req, sent |-> sent, at |-> t]

(* Mutant of the lookup condition: a given channel_id does not prevail *)
needs_lookup_ignoring_id(data) == ~Falsy(data.channel_number)

(* `if channel_number and not channel_id` *)
needs_lookup(data) == ~Falsy(data.channel_number) /\ Falsy(data.channel_id)

(* Mutant of the identifier tuned to: a variable the invocations share *)
watch_target_shared(inv) == svc[CHOOSE j \in Invocations : TRUE].channel_id

(* The identifier handed to watch_channel: the invocation's own local *)
watch_target(inv) == inv.channel_id

(* set_channel from the end of client.watch_channel on *)
svc_watch_end(inv, r) ==
    [inv EXCEPT !.pc = "done",
                !.result = IF IsTabloClientError(r)
                           THEN HomeAssistantError(<<"Failed to set channel: ">> \o r.msg)
                           ELSE IF r.status = "raised" THEN r ELSE Returned(NONE)]

(* set_channel calls client.watch_channel(channel_id) at tick t *)
svc_watch(inv, t) ==
    LET channel_id == watch_target(inv)
        req == device_request(inv.client, "POST", WATCH_CHANNEL_PATH(channel_id),
                              Dict(<<>>), t)
    IN  IF HasHost(req.url)
        THEN [inv EXCEPT !.pc = "watch",
                         !.calls = Append(@, Call("watch_channel", channel_id, req, TRUE, t)),
                         !.sessions = session_enter(@)]
        ELSE svc_watch_end(
                 [inv EXCEPT !.calls = Append(@, Call("watch_channel", channel_id, req,
                                                      FALSE, t))],
                 device_result(InvalidURL))

(* Mutant of the Roku step: a failed launch ends the invocation *)
svc_roku_end_raising(inv, outcome) ==
    [inv EXCEPT !.pc = "done",
                !.result = HomeAssistantError(<<"Failed to launch Tablo app: ", outcome>>)]

(* set_channel from an error of launch_tablo_app on: RokuNotFoundError and *)
(* every other Exception are logged as warnings, then the tuning follows   *)
(* without a wait.                                                         *)
svc_roku_end(inv, outcome) == svc_watch(inv, now)

(* asyncio.sleep(2) of wait_for_app_ready, in seconds *)
APP_READY_SLEEP == 2

(* launch_tablo_app has returned True: wait_for_app_ready sleeps *)
svc_app_wait(inv) ==
    [inv EXCEPT !.pc = "roku_wait", !.wake = now + APP_READY_SLEEP * TicksPerSecond]

(* What find_roku_device makes of the entity: a Roku media player, no such *)
(* entity (launch_tablo_app raises RokuNotFoundError), or an error of the  *)
(* state machine.                                                          *)
RokuStates == {"found", "RokuNotFoundError", "Exception"}

(* set_channel from the check of the identifier on: the error when there   *)
(* is none; when an entity is named, launch_tablo_app up to its await of   *)
(* roku.launch_app or, the entity not being found, straight on to the      *)
(* tuning; else the tuning.                                                *)
svc_after_lookup(inv, found) ==
    LET inv1 == [inv EXCEPT !.calls = Append(@, Call("launch_tablo_app",
                                                     inv.data.roku_entity_id, <<>>,
                                                     found = "found", now)),
                            !.resp = Append(@, found)]
    IN  IF Falsy(inv.channel_id)
        THEN [inv EXCEPT !.pc = "done",
                         !.result = HomeAssistantError(
                             <<"channel_id or channel_number required">>)]
        ELSE IF Falsy(inv.data.roku_entity_id) THEN svc_watch(inv, now)
        ELSE IF found = "found" THEN [inv1 EXCEPT !.pc = "roku"]
        ELSE svc_roku_end(inv1, found)

(* set_channel from the return of client.get_channels on *)
svc_lookup_end(inv, r, found) ==
    LET m == lookup(r.value.items, inv.data.channel_number, 1)
    IN  IF IsTabloClientError(r)
        THEN [inv EXCEPT !.pc = "done",
                         !.result = HomeAssistantError(<<"Failed to get channels: ">> \o r.msg)]
        ELSE IF r.status = "raised" THEN [inv EXCEPT !.pc = "done", !.result = r]
        ELSE IF m.status = "raised" THEN [inv EXCEPT !.pc = "done", !.result = m]
        ELSE IF Falsy(m.value)
        THEN [inv EXCEPT !.pc = "done",
                         !.result = HomeAssistantError(
                             <<"Channel ", inv.data.channel_number, " not found">>)]
        ELSE svc_after_lookup([inv EXCEPT !.channel_id = m.value], found)

(* Inputs of the service. *)
ServiceCallData ==
    [ channel_id : {NONE, "abc123"},
      channel_number : {NONE, "7.1"},
      roku_entity_id : {NONE, "media_player.roku_tv"} ]

CH_OTHER == [identifier |-> "REC-1", kind |-> "recording", ota |-> [major |-> 7, minor |-> 1]]
CH_OTA710 == [identifier |-> "S7_10", kind |-> "ota", ota |-> [major |-> 7, minor |-> 10]]
CH_OTT71 == [identifier |-> "OTT-71", kind |-> "ott", ott |-> [major |-> 7, minor |-> 1]]
CH_OTA71 == [identifier |-> "S7_1", kind |-> "ota", ota |-> [major |-> 7, minor |-> 1]]
CH_OTA112 == [identifier |-> "S11_2", kind |-> "ota", ota |-> [major |-> 11, minor |-> 2]]
CH_NONUMBER == [identifier |-> "M-1", kind |-> "ota"]

ServiceLineups ==
    { JList(<<CH_OTHER, CH_OTA710, CH_OTT71, CH_OTA71>>),
      JList(<<CH_OTA112>>),
      JList(<<>>),
      [code |-> "401", message |-> "Unauthorized"],
      JList(<<CH_NONUMBER>>) }

(* How a call of hass.services.async_call(..., blocking=True) ends: it     *)
(* returns, or it raises.                                                  *)
RokuOutcomes == {"launched", "failed"}

(* The configurations the service runs under: none, one device, two        *)
(* devices, and a device persisted with an empty URL.                      *)
Configurations ==
    { {},
      { ConfigEntry("user@example.com", Bundle("Bearer tokA", "acct-1", P1, D1, "uuid-1", 4), 1) },
      { ConfigEntry("user@example.com", Bundle("Bearer tokB", "acct-2", P2, D2, "uuid-1", 4), 1),
        ConfigEntry("user@example.com", Bundle("Bearer tokA", "acct-1", P1, D1, "uuid-2", 2), 2) },
      { ConfigEntry("user@example.com", Bundle("Bearer tokA", "acct-2", P2, D_EMPTYURL, "uuid-1", 2), 1) } }

(* The service is called: set_channel up to its first await. *)
set_channel_service(i, data, found) ==
    LET entry == get_config_entry(entries)
        c     == TabloClient(service_credentials(entry.value.data))
        inv0  == [IdleInvocation EXCEPT !.data = data, !.channel_id = data.channel_id]
        inv1  == [inv0 EXCEPT !.client = c]
    IN  /\ svc[i].pc = "idle"
        /\ svc' = [svc EXCEPT ![i] =
               IF entry.status = "raised"
               THEN [inv0 EXCEPT !.pc = "done", !.result = entry]
               ELSE IF needs_lookup(data)
               THEN [inv1 EXCEPT !.pc = "lookup",
                                 !.calls = <<Call("get_channels", NONE,
                                                  channels_request(c), TRUE, now)>>,
                                 !.sessions = session_enter(@)]
               ELSE svc_after_lookup(inv1, found)]
        /\ UNCHANGED <<now, debug, levels, devVars, authVars, flowVars, hass, logrecs>>

(* The response head of the pending exchange of invocation i arrives with *)
(* a 2xx status; the call awaits the body.                                 *)
SvcHead(i) ==
    /\ svc[i].pc \in {"lookup", "watch"}
    /\ ~svc[i].head
    /\ svc' = [svc EXCEPT ![i].head = TRUE]
    /\ UNCHANGED <<now, debug, levels, devVars, authVars, flowVars, hass, logrecs>>

(* The lineup exchange of invocation i ends. *)
LookupRespond(i, outcome, found) ==
    LET r == get_channels_result(outcome)
    IN  /\ svc[i].pc = "lookup"
        /\ Arrives(svc[i].head, outcome)
        /\ svc' = [svc EXCEPT ![i] =
               svc_lookup_end([svc[i] EXCEPT !.resp = Append(@, outcome),
                                             !.head = FALSE,
                                             !.sessions = session_exit(@, r)], r, found)]
        /\ UNCHANGED <<now, debug, levels, devVars, authVars, flowVars, hass, logrecs>>

(* roku.launch_app of invocation i ends: the helper returns True and the   *)
(* service goes on to wait_for_app_ready, or the helper tries the          *)
(* fallback.                                                               *)
RokuRespond(i, outcome) ==
    LET inv == [svc[i] EXCEPT !.resp = Append(@, outcome)]
    IN  /\ svc[i].pc = "roku"
        /\ svc' = [svc EXCEPT ![i] =
               IF outcome = "launched" THEN svc_app_wait(inv)
               ELSE [inv EXCEPT !.pc = "roku_fallback"]]
        /\ UNCHANGED <<now, debug, levels, devVars, authVars, flowVars, hass, logrecs>>

(* media_player.select_source of invocation i ends: the helper returns    *)
(* True, or raises HomeAssistantError, which set_channel logs only.        *)
FallbackRespond(i, outcome) ==
    LET inv == [svc[i] EXCEPT !.resp = Append(@, outcome)]
    IN  /\ svc[i].pc = "roku_fallback"
        /\ svc' = [svc EXCEPT ![i] =
               IF outcome = "launched" THEN svc_app_wait(inv)
               ELSE svc_roku_end(inv, "HomeAssistantError")]
        /\ UNCHANGED <<now, debug, levels, devVars, authVars, flowVars, hass, logrecs>>

(* asyncio.sleep(2) of invocation i returns, the clock having reached the  *)
(* time it was to wake at; the tuning follows.                             *)
AppReady(i) ==
    LET t == IF now < svc[i].wake THEN svc[i].wake ELSE now
    IN  /\ svc[i].pc = "roku_wait"
        /\ now' = t
        /\ svc' = [svc EXCEPT ![i] = svc_watch(svc[i], t)]
        /\ UNCHANGED <<debug, levels, devVars, authVars, flowVars, hass, logrecs>>

(* The tuning exchange of invocation i ends. *)
WatchRespond(i, outcome) ==
    LET r == device_result(outcome)
    IN  /\ svc[i].pc = "watch"
        /\ Arrives(svc[i].head, outcome)
        /\ svc' = [svc EXCEPT ![i] =
               svc_watch_end([svc[i] EXCEPT !.resp = Append(@, outcome),
                                            !.head = FALSE,
                                            !.sessions = session_exit(@, r)], r)]
        /\ UNCHANGED <<now, debug, levels, devVars, authVars, flowVars, hass, logrecs>>

(* The service under each configuration; async_setup_entry sets debug     *)
(* logging from the entry's options, async_unload_entry turns it off.      *)
InitService ==
    /\ InitCore
    /\ entries \in Configurations
    /\ debug \in IF entries = {} THEN {FALSE} ELSE BOOLEAN
    /\ levels = [package |-> IF entries = {} THEN "notset" ELSE level_of(debug),
                 root |-> "warning"]
    /\ hass = [data |-> [id \in {e.index : e \in entries} |->
                             (CHOOSE e \in entries : e.index = id).data],
               services |-> IF entries = {} THEN {} ELSE SERVICES,
               options |-> [id \in {e.index : e \in entries} |-> <<>>]]
    /\ logrecs = NoCapture

NextService ==
    \/ \E i \in Invocations, data \in ServiceCallData, found \in RokuStates :
          set_channel_service(i, data, found)
    \/ \E i \in Invocations, o \in CloudOutcomes(ServiceLineups), found \in RokuStates :
          LookupRespond(i, o, found)
    \/ \E i \in Invocations : SvcHead(i)
    \/ \E i \in Invocations, o \in RokuOutcomes : RokuRespond(i, o)
    \/ \E i \in Invocations, o \in RokuOutcomes : FallbackRespond(i, o)
    \/ \E i \in Invocations : AppReady(i)
    \/ \E i \in Invocations, o \in {Ok(j) : j \in WatchAcks} \cup Failures :
          WatchRespond(i, o)

SpecService == InitService /\ [][NextService]_vars

-----------------------------------------------------------------------------
(* Properties.                                                             *)

(* The signing string that was MACed into a device request's Authorization *)
(* header: <<method, path, body_hash, date>>.                              *)
SigningString(req) == req.headers["Authorization"][3][3]

(* The device requests issued: those of the device call and the probe of   *)
(* authenticate.                                                           *)
IsProbe(e) == e.op = "probe"
DeviceRequests == devLog \o SelectSeq(authLog, IsProbe)

(* C1 (as claimed): every POST that watch_channel sends carries a non-empty *)
(* body, the device-descriptor envelope with device_id = the client's UUID *)
(* merged with the caller's fields, and the body-hash component of the     *)
(* signing string is the hash of exactly that body.                        *)
C1_WatchBodyIsEnvelope ==
    (devPc = "wait" /\ devOp.name = "watch_channel") =>
        \A i \in 1..Len(devLog) :
            LET r == devLog[i].req
            IN  /\ r.method = "POST"
                /\ r.data.present
                /\ Len(r.data.body) > 0
                /\ r.data.body = json_dumps(Update(device_body(client.uuid), devOp.body.dict))
                /\ r.data.body[2]["device_id"] = client.uuid
                /\ SigningString(r)[3] = md5_hexdigest(r.data.body)

(* C2 (as claimed): when login, account fetch and account-select succeeded *)
(* and the device probe failed in any way, a timeout included,             *)
(* authenticate returns a bundle whose tuner count is 2.                   *)
C2_ProbeFailureDefaultsTuners ==
    (authPc = "done" /\ Len(authResp) = 4 /\ authResp[4].kind # "ok") =>
        /\ authResult.status = "returned"
        /\ authResult.value["tuners"] = 2

(* C3: a login response with a non-null `code` makes authenticate fail     *)
(* with TabloAuthenticationError carrying the response's message, and the  *)
(* login request is the only request of the call.                          *)
LoginHasCode ==
    /\ Len(authResp) >= 1
    /\ authResp[1].kind = "ok"
    /\ "code" \in DOMAIN authResp[1].json
    /\ authResp[1].json["code"] # NONE

C3_LoginCodeFailsWithoutFurtherRequests ==
    LoginHasCode =>
        /\ authPc = "done"
        /\ authResult.status = "raised"
        /\ authResult.exc = "TabloAuthenticationError"
        /\ "message" \in DOMAIN authResp[1].json
              => authResult.msg = <<authResp[1].json["message"]>>
        /\ Len(authLog) = 1
        /\ authLog[1].op = "login"
        /\ Len(authResp) = 1

C3_Witness ==
    /\ LoginHasCode
    /\ "message" \in DOMAIN authResp[1].json
    /\ "access_token" \in DOMAIN authResp[1].json
    /\ authResult.exc = "TabloAuthenticationError"

(* The cloud call of authenticate (login, account fetch or account-select) *)
(* that has just failed: a connection failure, a non-2xx status or the     *)
(* expiry of the request timeout.                                          *)
CloudCallFailed ==
    /\ authPc = "done"
    /\ Len(authResp) \in 1..3
    /\ authResp[Len(authResp)].kind \in {"client_error", "http_error", "timeout"}

(* C4 (as claimed): a cloud call of authenticate that fails at the         *)
(* transport level or with a non-2xx status makes authenticate fail with   *)
(* TabloConnectionError, not with TabloAuthenticationError.                *)
C4_CloudFailureIsConnectionError ==
    CloudCallFailed =>
        /\ authResult.status = "raised"
        /\ authResult.exc = "TabloConnectionError"

(* C5 (as claimed): a local-device call whose device does not answer       *)
(* within the request timeout ends with TabloConnectionError.              *)
C5_DeviceTimeoutIsConnectionError ==
    (/\ devPc = "done"
     /\ devOp.name # "get_channels"
     /\ Len(devResp) = 1
     /\ devResp[1].kind = "timeout") =>
        /\ devResult.status = "raised"
        /\ devResult.exc = "TabloConnectionError"

(* What it is for each cloud response of the handshake to pass its checks. *)
Present(json, k) == k \in DOMAIN json /\ json[k] # NONE /\ json[k] # ""
NoCode(json) == "code" \notin DOMAIN json \/ json["code"] = NONE

LoginPassed(o) ==
    o.kind = "ok" /\ NoCode(o.json)
    /\ Present(o.json, "access_token") /\ Present(o.json, "token_type")

AccountPassed(o) ==
    /\ o.kind = "ok" /\ NoCode(o.json)
    /\ "profiles" \in DOMAIN o.json /\ Len(o.json["profiles"]) > 0
    /\ "devices" \in DOMAIN o.json /\ Len(o.json["devices"]) > 0

SelectPassed(o) == o.kind = "ok" /\ Present(o.json, "token")

StepPassed(i) ==
    /\ Len(authResp) >= i
    /\ CASE i = 1 -> LoginPassed(authResp[1])
         [] i = 2 -> AccountPassed(authResp[2])
         [] i = 3 -> SelectPassed(authResp[3])

HandshakeOrder == <<"login", "account", "select", "probe">>

(* C6: within one authenticate call the requests are issued in the order   *)
(* login, account fetch, account-select, device probe, each at most once,  *)
(* and each only after the previous one returned a response that passed    *)
(* its checks (the probe only after a lighthouse token was obtained).      *)
C6_HandshakeOrder ==
    /\ Len(authLog) <= 4
    /\ Len(authResp) <= Len(authLog)
    /\ \A i \in 1..Len(authLog) : authLog[i].op = HandshakeOrder[i]
    /\ \A i \in 2..Len(authLog) : StepPassed(i - 1)
    /\ Len(authLog) = 4 =>
          /\ auth.lighthouse = authResp[3].json["token"]
          /\ auth.lighthouse # ""

C6_Witness ==
    /\ authPc = "probe"
    /\ Len(authLog) = 4
    /\ Len(authResp) = 3
    /\ authCalls = 2

BundleKeys ==
    { "lighthousetv_authorization", "lighthousetv_identifier", "profile",
      "device", "lighthouse", "uuid", "tuners" }

(* C7: authenticate returns a bundle only if login, account fetch and      *)
(* account-select all succeeded; when one of them failed it raises and     *)
(* returns nothing; the only exchange that can fail in a call that returns *)
(* is the device probe's.                                                  *)
C7_NoPartialCredentials ==
    /\ authResult.status = "returned" =>
          /\ StepPassed(1) /\ StepPassed(2) /\ StepPassed(3)
          /\ DOMAIN authResult.value = BundleKeys
          /\ \A i \in 1..Len(authResp) : authResp[i].kind # "ok" => i = 4
    /\ (authPc = "done" /\ \E i \in 1..3 : ~StepPassed(i)) =>
          /\ authResult.status = "raised"
          /\ authResult.value = <<>>
    /\ authPc # "done" => authResult.status = "none"

C7_Witness ==
    /\ authResult.status = "returned"
    /\ Len(authResp) = 4
    /\ authResp[4].kind = "client_error"
    /\ authResult.value["lighthouse"] = "lh-1"

(* C8: the Date header of every local-device request is the date of that   *)
(* request's signing string, and it is the date of the moment the request  *)
(* is issued, not that of an earlier request.                              *)
C8_DateHeaderIsSignedDate ==
    \A i \in 1..Len(DeviceRequests) :
        LET e == DeviceRequests[i]
        IN  /\ e.req.headers["Date"] = SigningString(e.req)[4]
            /\ e.req.headers["Date"] = get_device_date(e.at)

C8_Witness ==
    /\ devCalls = 2
    /\ devPc = "wait"
    /\ Len(devLog) = 1
    /\ devLog[1].at >= TicksPerSecond
    /\ devLog[1].req.headers["Date"] # get_device_date(0)
    /\ SigningString(devLog[1].req)[4] = devLog[1].req.headers["Date"]

(* C9: the method, path and body that enter the signing string of a        *)
(* local-device request are those of the request sent (the URL requested   *)
(* is the device's base address followed by the signed path); the          *)
(* body-hash component is empty exactly when no body is sent, as for       *)
(* get_server_info, and the hash of the sent body otherwise.               *)
C9_SignedPartsAreSentParts ==
    \A i \in 1..Len(devLog) :
        LET r == devLog[i].req
            s == SigningString(r)
        IN  /\ s[1] = r.method
            /\ r.url = RStrip(devOp.device_url) \o s[2]
            /\ (s[3] = <<>>) <=> ~r.data.present
            /\ r.data.present => s[3] = md5_hexdigest(r.data.body)
            /\ devOp.name = "get_server_info" => ~r.data.present

C9_Witness ==
    /\ devPc = "wait"
    /\ Len(devLog) = 1
    /\ devLog[1].req.method = "POST"
    /\ devLog[1].req.data.present
    /\ SigningString(devLog[1].req)[3] = md5_hexdigest(devLog[1].req.data.body)
    /\ devOp.device_url = U_SLASH

(* C10 (as claimed): one call of watch_channel(C) on a client of device    *)
(* URL U issues exactly one request, a POST to U + "/guide/channels/" + C  *)
(* + "/watch".                                                             *)
C10_WatchPostsToUrlPlusPath ==
    (devOp.name = "watch_channel" /\ HasHost(devOp.device_url)) =>
        /\ Len(devLog) = 1
        /\ devLog[1].req.method = "POST"
        /\ devLog[1].req.url =
              devOp.device_url
              \o <<"/", "guide", "/", "channels", "/", devOp.arg, "/", "watch">>

(* C10 (amended): for a device URL U that has a host, one call of          *)
(* watch_channel(C) issues exactly one request, a POST to U without its    *)
(* trailing slashes + "/guide/channels/" + C + "/watch"; no second request *)
(* follows a failure, which reaches the caller.                            *)
C10_WatchPostsOnceToStrippedUrl ==
    (devOp.name = "watch_channel" /\ HasHost(devOp.device_url)) =>
        /\ Len(devLog) = 1
        /\ devLog[1].req.method = "POST"
        /\ devLog[1].req.url =
              RStrip(devOp.device_url)
              \o <<"/", "guide", "/", "channels", "/", devOp.arg, "/", "watch">>
        /\ Len(devResp) <= 1
        /\ devPc = "done" <=> Len(devResp) = 1
        /\ (devPc = "done" /\ devResp[1].kind # "ok") => devResult.status = "raised"

C10_Witness ==
    /\ devOp.name = "watch_channel"
    /\ devOp.device_url = U_SLASH
    /\ devPc = "done"
    /\ devResp[1].kind = "http_error"
    /\ devResult.exc = "TabloConnectionError"

(* The Authorization headers of the local-device requests issued. *)
DeviceAuthHeaders ==
    { DeviceRequests[i].req.headers["Authorization"] : i \in 1..Len(DeviceRequests) }

(* C11 (as claimed): the Authorization header of every local-device        *)
(* request is tablo:{key}:{mac} with a key of exactly 32 characters and a  *)
(* mac of exactly 32 lowercase hexadecimal characters.                     *)
C11_AuthHeaderKeyHas32Chars ==
    \A h \in DeviceAuthHeaders :
        /\ Len(h) = 3
        /\ h[1] = "tablo"
        /\ Len(h[2]) = 32
        /\ IsHexdigest(h[3])
        /\ hexdigest_len(h[3]) = 32

(* C11 (amended): the Authorization header of every local-device request   *)
(* is tablo:{key}:{mac} where key is the fixed device key DEVICE_KEY, which *)
(* has 40 characters, and mac is the HMAC-MD5 hexdigest under HASH_KEY: 32 *)
(* lowercase hexadecimal characters.                                       *)
C11_AuthHeaderForm ==
    \A h \in DeviceAuthHeaders :
        /\ Len(h) = 3
        /\ h[1] = "tablo"
        /\ h[2] = DEVICE_KEY
        /\ Len(h[2]) = 40
        /\ IsHexdigest(h[3])
        /\ h[3][1] = "hmac-md5"
        /\ h[3][2] = HASH_KEY
        /\ hexdigest_len(h[3]) = 32

C11_Witness ==
    /\ devPc = "wait"
    /\ devOp.name = "watch_channel"
    /\ devOp.arg = "abc123"
    /\ devOp.device_url = U_PLAIN
    /\ Len(devLog) = 1
    /\ devLog[1].req.headers["Authorization"][2] = DEVICE_KEY

(* A response of authenticate's i-th exchange that is a JSON object. *)
ObjectResponse(i) ==
    /\ Len(authResp) >= i
    /\ authResp[i].kind = "ok"
    /\ ~IsList(authResp[i].json)

(* authenticate has raised TabloAuthenticationError. *)
AuthenticationFailed ==
    /\ authPc = "done"
    /\ authResult.status = "raised"
    /\ authResult.exc = "TabloAuthenticationError"

(* C12: whenever authenticate returns, the bundle's authorization is       *)
(* "{token_type} {access_token}" of the login response, its lighthouse     *)
(* token is the `token` of the account-select response, its UUID is the    *)
(* one generated by the call, and none of the three is empty.              *)
C12_ReturnedBundleIsComplete ==
    (authPc = "done" /\ authResult.status = "returned") =>
        /\ ObjectResponse(1)
        /\ ObjectResponse(3)
        /\ LET b      == authResult.value
               login  == authResp[1].json
               select == authResp[3].json
           IN  /\ b["lighthousetv_authorization"]
                     = login["token_type"] \o " " \o login["access_token"]
               /\ login["token_type"] # ""
               /\ login["access_token"] # ""
               /\ b["lighthouse"] = select["token"]
               /\ b["lighthouse"] # ""
               /\ b["uuid"] = uuid4(authCalls)
               /\ b["uuid"] # ""

C12_Witness ==
    /\ authPc = "done"
    /\ authResult.status = "returned"
    /\ Len(authResp) = 4
    /\ authResult.value["lighthousetv_authorization"] = "Bearer tokB"
    /\ authResult.value["lighthouse"] = "lh-1"

(* C13: a login response that is an object with a null or absent `code`    *)
(* and a missing or empty `access_token` or `token_type` makes             *)
(* authenticate fail with TabloAuthenticationError, and the login request  *)
(* is the only request of the call: no account fetch is issued.            *)
LoginLacksToken ==
    /\ ObjectResponse(1)
    /\ Get(authResp[1].json, "code", NONE) = NONE
    /\ \/ Falsy(Get(authResp[1].json, "access_token", NONE))
       \/ Falsy(Get(authResp[1].json, "token_type", NONE))

C13_MalformedLoginFailsWithoutAccountFetch ==
    LoginLacksToken =>
        /\ AuthenticationFailed
        /\ Len(authLog) = 1
        /\ authLog[1].op = "login"
        /\ Len(authResp) = 1

C13_Witness ==
    /\ LoginLacksToken
    /\ AuthenticationFailed
    /\ "access_token" \in DOMAIN authResp[1].json
    /\ authResp[1].json["access_token"] = ""

(* C14: an account response with a non-null `code` makes authenticate fail *)
(* with TabloAuthenticationError carrying the response's `message`, and no *)
(* account-select request is issued.                                       *)
AccountHasCode ==
    /\ ObjectResponse(2)
    /\ Get(authResp[2].json, "code", NONE) # NONE

C14_AccountCodeFailsWithoutSelect ==
    AccountHasCode =>
        /\ AuthenticationFailed
        /\ "message" \in DOMAIN authResp[2].json
              => authResult.msg = <<authResp[2].json["message"]>>
        /\ Len(authLog) = 2
        /\ \A i \in 1..Len(authLog) : authLog[i].op # "select"
        /\ Len(authResp) = 2

C14_Witness ==
    /\ AccountHasCode
    /\ AuthenticationFailed
    /\ authResult.msg = <<"Account unavailable">>

(* C15: the account-select request carries the identifier of the first     *)
(* profile and the server ID of the first device of the account response,  *)
(* a returned bundle holds exactly that profile and that device, and an    *)
(* account response whose profile list or device list is empty or absent   *)
(* makes authenticate fail with TabloAuthenticationError without an        *)
(* account-select request.                                                 *)
AccountLacksProfileOrDevice ==
    /\ ObjectResponse(2)
    /\ Get(authResp[2].json, "code", NONE) = NONE
    /\ \/ Len(Get(authResp[2].json, "profiles", <<>>)) = 0
       \/ Len(Get(authResp[2].json, "devices", <<>>)) = 0

C15_FirstProfileAndDeviceSelected ==
    /\ Len(authLog) >= 3 =>
          /\ authLog[3].op = "select"
          /\ ObjectResponse(2)
          /\ LET account == authResp[2].json
             IN  /\ authLog[3].req.data.present
                 /\ authLog[3].req.data.body =
                       json_dumps([pid |-> account["profiles"][1]["identifier"],
                                   sid |-> account["devices"][1]["serverId"]])
                 /\ (authPc = "done" /\ authResult.status = "returned") =>
                       /\ authResult.value["profile"] = account["profiles"][1]
                       /\ authResult.value["device"] = account["devices"][1]
    /\ (authPc = "done" /\ authResult.status = "returned") => Len(authLog) >= 3
    /\ AccountLacksProfileOrDevice =>
          /\ AuthenticationFailed
          /\ Len(authLog) = 2
          /\ Len(authResp) = 2

C15_Witness ==
    /\ authPc = "done"
    /\ authResult.status = "returned"
    /\ Len(authResp[2].json["profiles"]) = 2
    /\ Len(authResp[2].json["devices"]) = 2
    /\ authResult.value["profile"] = P1
    /\ authResult.value["device"] = D1

(* C16: an account-select response that is an object without a `token`, or *)
(* with an empty one, makes authenticate fail with                         *)
(* TabloAuthenticationError; no UUID is generated, no bundle is returned   *)
(* and no device probe is issued.                                          *)
SelectLacksToken ==
    /\ ObjectResponse(3)
    /\ Falsy(Get(authResp[3].json, "token", NONE))

C16_MissingLighthouseFailsWithoutProbe ==
    SelectLacksToken =>
        /\ AuthenticationFailed
        /\ auth.device_uuid = ""
        /\ auth.lighthouse = ""
        /\ Len(authLog) = 3
        /\ \A i \in 1..Len(authLog) : authLog[i].op # "probe"
        /\ Len(authResp) = 3

C16_Witness ==
    /\ SelectLacksToken
    /\ AuthenticationFailed
    /\ "token" \in DOMAIN authResp[3].json

(* C17 (as claimed): when the lineup exchange succeeds, get_channels        *)
(* returns the payload unchanged if it is a list and an empty list if it   *)
(* is not; it does not raise.                                              *)
C17_ChannelsListUnchangedElseEmpty ==
    (devPc = "done" /\ devOp.name = "get_channels" /\ devResp[1].kind = "ok") =>
        /\ devResult.status = "returned"
        /\ devResult.value = IF IsList(devResp[1].json) THEN devResp[1].json
                             ELSE JList(<<>>)

(* C18 (as claimed): a failure of authenticate, get_channels,              *)
(* watch_channel or get_server_info reaches the caller as                  *)
(* TabloConnectionError, TabloAuthenticationError or TabloClientError,     *)
(* also when a payload is malformed.                                       *)
TabloErrors == {"TabloConnectionError", "TabloAuthenticationError", "TabloClientError"}

C18_OnlyClientErrorsEscape ==
    /\ authResult.status = "raised" => authResult.exc \in TabloErrors
    /\ (devResult.status = "raised" /\ devOp.name # "_request_device")
          => devResult.exc \in TabloErrors

(* C19: every ClientSession that authenticate, get_channels, watch_channel *)
(* or get_server_info opened is closed when the operation has ended,       *)
(* however it ended; while one runs it holds its own session, and          *)
(* authenticate a second one during the probe.                             *)
C19_SessionsClosed ==
    /\ devPc # "wait" => devSessions = 0
    /\ devPc = "wait" => devSessions = IF devOp.name = "_request_device" THEN 0 ELSE 1
    /\ authPc \in {"idle", "done"} => authSessions = 0
    /\ authPc \in {"login", "account", "select"} => authSessions = 1
    /\ authPc = "probe" => authSessions = 2

(* An authenticate call that opened both of its sessions has ended with an *)
(* error that is neither of the client's, and the second call of the       *)
(* DeviceClient, a watch_channel, has ended with TabloConnectionError:     *)
(* no session is open.                                                     *)
C19_Witness ==
    /\ authPc = "done"
    /\ Len(authResp) = 4
    /\ authResult.status = "raised"
    /\ authResult.exc = "TimeoutError"
    /\ authSessions = 0
    /\ devPc = "done"
    /\ devCalls >= 2
    /\ devOp.name = "watch_channel"
    /\ devResult.status = "raised"
    /\ devResult.exc = "TabloConnectionError"
    /\ devSessions = 0

(* What a setup persists, as a function of the username, the responses of  *)
(* the exchanges and the UUID generated: the password is no argument.      *)
PersistedFrom(username, responses, uuid) ==
    LET login   == responses[1].json
        account == responses[2].json
        select  == responses[3].json
        profile == account["profiles"][1]
        device  == account["devices"][1]
        tuners  == IF Len(responses) >= 4 /\ responses[4].kind = "ok"
                   THEN Get(Get(responses[4].json, "model", <<>>), "tuners", 2)
                   ELSE 2
    IN  [ username |-> username,
          device_url |-> Get(device, "url", <<>>),
          device_server_id |-> device["serverId"],
          profile_id |-> profile["identifier"],
          lighthouse |-> select["token"],
          lighthousetv_authorization |->
              login["token_type"] \o " " \o login["access_token"],
          lighthousetv_identifier |-> Get(account, "identifier", ""),
          uuid |-> uuid,
          tuners |-> tuners,
          device_name |-> Get(device, "name", "Tablo Device") ]

(* The string values of mapping d under the keys given. *)
StringsOf(d, keys) == { d[k] : k \in keys \cap DOMAIN d }

BundleStrings(b) ==
    StringsOf(b, {"lighthousetv_authorization", "lighthousetv_identifier",
                  "lighthouse", "uuid"})
    \cup StringsOf(b["profile"], {"identifier", "name"})
    \cup StringsOf(b["device"], {"serverId", "name"})
    \cup { Get(b["device"], "url", <<>>)[i] :
              i \in 1..Len(Get(b["device"], "url", <<>>)) }

DataStrings(d) ==
    StringsOf(d, DOMAIN d \ {"tuners", "device_url"})
    \cup { d["device_url"][i] : i \in 1..Len(d["device_url"]) }

(* C20: the password appears neither in the bundle authenticate returns    *)
(* nor in the data of any config entry, and the data a setup persists is   *)
(* determined by the username, the responses and the generated UUID: two   *)
(* setups that differ only in the password persist the same data up to the *)
(* UUID.                                                                   *)
C20_PasswordNotPersisted ==
    /\ (authPc = "done" /\ authResult.status = "returned") =>
          /\ "password" \notin DOMAIN authResult.value
          /\ auth.password \notin BundleStrings(authResult.value)
    /\ \A e \in entries :
          /\ "password" \notin DOMAIN e.data
          /\ Passwords \cap DataStrings(e.data) = {}
    /\ flow.result.type = "create_entry" =>
          /\ flow.result.data =
                PersistedFrom(flow.user_input["username"], authResp, uuid4(authCalls))
          /\ \E e \in entries : e.data = flow.result.data

C20_Witness ==
    /\ flow.result.type = "create_entry"
    /\ flow.user_input["password"] = "pw-2"
    /\ flow.result.data["tuners"] = 4
    /\ Cardinality(entries) = 2

(* C21: the DeviceClient built from the reduced mapping the services       *)
(* rebuild out of a config entry has the device URL, UUID, lighthouse      *)
(* token and authorization of the DeviceClient built from the bundle that  *)
(* the entry was made of.                                                  *)
C21_PersistenceRoundTrip ==
    flow.result.type = "create_entry" =>
        /\ authResult.status = "returned"
        /\ TabloClient(service_credentials(flow.result.data))
              = TabloClient(authResult.value)
        /\ \E e \in entries :
              /\ e.data = flow.result.data
              /\ TabloClient(service_credentials(e.data)) = TabloClient(authResult.value)

C21_Witness ==
    /\ flow.result.type = "create_entry"
    /\ flow.result.data["device_url"] = U_SLASH
    /\ TabloClient(service_credentials(flow.result.data)).device_url = U_SLASH
    /\ TabloClient(authResult.value).uuid = "uuid-2"

(* C27 (as claimed): at most one config entry exists per server ID, and a  *)
(* flow whose authenticated device's server ID is already configured ends  *)
(* as an "already_configured" abort and creates no entry.                  *)
FlowMetConfiguredDevice ==
    /\ flow.pc = "form"
    /\ flow.result.type \notin {"none", "create_entry"}
    /\ authPc = "done"
    /\ authResult.status = "returned"

C27_ServerIdDeduplicates ==
    /\ \A e1, e2 \in entries : e1.unique_id = e2.unique_id => e1 = e2
    /\ \A e \in entries : e.unique_id = e.data["device_server_id"]
    /\ FlowMetConfiguredDevice =>
          /\ flow.result.type = "abort"
          /\ flow.result.reason = "already_configured"

(* C28: when the probe succeeds with a JSON object, the bundle's tuner     *)
(* count is the `model.tuners` of that response, 2 when the response does  *)
(* not carry it; when the selected device has no URL (absent or empty), no *)
(* device request is issued and the tuner count is 2.                      *)
ProbeSucceeded ==
    /\ authPc = "done"
    /\ Len(authResp) = 4
    /\ authResp[4].kind = "ok"
    /\ ~IsList(authResp[4].json)

SelectedDeviceLacksUrl ==
    /\ authPc = "done"
    /\ authResult.status = "returned"
    /\ Len(Get(authResult.value["device"], "url", <<>>)) = 0

C28_TunersFromProbe ==
    /\ ProbeSucceeded =>
          /\ authResult.status = "returned"
          /\ authResult.value["tuners"] =
                IF /\ "model" \in DOMAIN authResp[4].json
                   /\ "tuners" \in DOMAIN authResp[4].json["model"]
                THEN authResp[4].json["model"]["tuners"]
                ELSE 2
    /\ SelectedDeviceLacksUrl =>
          /\ authResult.value["tuners"] = 2
          /\ Len(authLog) = 3
          /\ Len(authResp) = 3
          /\ \A i \in 1..Len(authLog) : authLog[i].op # "probe"

C28_Witness ==
    /\ ProbeSucceeded
    /\ authResult.value["tuners"] = 4
    /\ authCalls = 2

(* C30: each successful authenticate call returns the UUID generated by    *)
(* that call; it is no value of a cloud response, and the UUIDs persisted  *)
(* by different successful setups differ from each other.                  *)
ResponseStrings(json) ==
    IF IsList(json) THEN {}
    ELSE StringsOf(json, {"access_token", "token_type", "token", "identifier",
                           "code", "message"})

C30_FreshUuid ==
    /\ (authPc = "done" /\ authResult.status = "returned") =>
          /\ authResult.value["uuid"] = uuid4(authCalls)
          /\ \A i \in 1..3 : authResult.value["uuid"] \notin ResponseStrings(authResp[i].json)
          /\ \A e \in entries :
                e.data["uuid"] = authResult.value["uuid"]
                   => (flow.result.type = "create_entry" /\ e.data = flow.result.data)
    /\ \A e1, e2 \in entries : e1.data["uuid"] = e2.data["uuid"] => e1 = e2
    /\ \A i, j \in 1..MaxAuthCalls : uuid4(i) = uuid4(j) => i = j

C30_Witness ==
    /\ Cardinality(entries) = 2
    /\ flow.result.type = "create_entry"
    /\ authResult.value["uuid"] = uuid4(2)

(* The clients that can be constructed. *)
ConstructedClients ==
    { TabloClient(c) : c \in CredentialInputs \cup {InitialCredentials} }

(* C22: a step of get_channels, watch_channel or get_server_info leaves    *)
(* the four fields of the DeviceClient as its construction set them; the   *)
(* device request a call issues targets the client's device URL and the    *)
(* lineup request carries the client's lighthouse token and authorization. *)
C22_CallsLeaveClientUnchanged ==
    [][ /\ client \in ConstructedClients
        /\ (devCalls' # devCalls \/ devPc' # devPc \/ devResult' # devResult)
              => client' = client
        /\ (devCalls' = devCalls + 1 /\ Len(devLog') = 1) =>
              /\ devOp'.device_url = client.device_url
              /\ devLog'[1].req.url =
                    RStrip(client.device_url) \o <<"/">> \o LStrip(devOp'.path)
        /\ (devCalls' = devCalls + 1 /\ Len(cloudLog') = 1) =>
              /\ cloudLog'[1].req.url =
                    <<"https://", CLOUD_API_HOST, CHANNELS_PATH(client.lighthouse)>>
              /\ cloudLog'[1].req.headers["Lighthouse"] = client.lighthouse
              /\ cloudLog'[1].req.headers["Authorization"] = client.authorization
      ]_vars

C22_Witness ==
    /\ devCalls = 2
    /\ devPc = "done"
    /\ devOp.name = "get_channels"
    /\ Len(cloudLog) = 1
    /\ client.lighthouse = "lh-1"
    /\ cloudLog[1].req.headers["Lighthouse"] = "lh-1"

(* The arguments of _make_device_auth for the request of a device call. *)
SignedInputs(log, op) ==
    << log[1].req.method, op.path, log[1].req.data.body, log[1].req.headers["Date"] >>

DiffCount(x, y) == Cardinality({ i \in 1..4 : x[i] # y[i] })

(* C29: of two successive device requests, whatever client issued them,    *)
(* those signed for the same method, path, body and date carry the same    *)
(* Authorization header, and those that differ in exactly one of the four  *)
(* carry different headers.                                                *)
C29_SigningDeterministicAndSensitive ==
    [][ (Len(devLog) = 1 /\ Len(devLog') = 1 /\ devCalls' = devCalls + 1) =>
           LET x  == SignedInputs(devLog, devOp)
               y  == SignedInputs(devLog', devOp')
               hx == devLog[1].req.headers["Authorization"]
               hy == devLog'[1].req.headers["Authorization"]
           IN  /\ x = y => hx = hy
               /\ DiffCount(x, y) = 1 => hx # hy
      ]_vars

C29_Witness ==
    /\ devCalls = 2
    /\ Len(devLog) = 1
    /\ devPc = "wait"
    /\ devOp.name = "watch_channel"
    /\ client.uuid = "uuid-q"
    /\ now = 0

(* The positions in the calls of an invocation at which it called `op`. *)
CallsOf(inv, op) == {k \in 1..Len(inv.calls) : inv.calls[k].op = op}

(* The identifiers of the channels of a lineup payload. *)
LineupIdentifiers(json) ==
    IF IsList(json)
    THEN {json.items[k]["identifier"] : k \in 1..Len(json.items)}
    ELSE {}

(* C23: within one set_channel invocation, get_channels is called at most  *)
(* once and only when a channel number was given without a channel id;     *)
(* watch_channel is called at most once, only once the identifier is known *)
(* (the one given, or one the completed lookup resolved after get_channels *)
(* returned), and never when neither an id nor a number was given.         *)
C23_LookupAndTuneAtMostOnce ==
    \A i \in Invocations :
        LET inv == svc[i]
            L   == CallsOf(inv, "get_channels")
            W   == CallsOf(inv, "watch_channel")
        IN  /\ Cardinality(L) <= 1
            /\ L # {} => (~Falsy(inv.data.channel_number) /\ Falsy(inv.data.channel_id))
            /\ Cardinality(W) <= 1
            /\ \A w \in W :
                  \/ /\ ~Falsy(inv.data.channel_id)
                     /\ inv.calls[w].arg = inv.data.channel_id
                  \/ \E l \in L :
                        /\ l < w
                        /\ Len(inv.resp) >= 1
                        /\ inv.resp[1].kind = "ok"
                        /\ inv.calls[w].arg \in LineupIdentifiers(inv.resp[1].json)
            /\ (Falsy(inv.data.channel_id) /\ Falsy(inv.data.channel_number))
                  => (L = {} /\ W = {})

(* An invocation looked the number up and then tuned, and another was      *)
(* given the id together with a number and tuned without a lookup.         *)
C23_Witness ==
    /\ svc["a"].pc = "done"
    /\ svc["a"].result.status = "returned"
    /\ Len(svc["a"].calls) = 2
    /\ svc["a"].calls[1].op = "get_channels"
    /\ svc["a"].calls[2].op = "watch_channel"
    /\ svc["b"].pc = "done"
    /\ svc["b"].data.channel_id = "abc123"
    /\ svc["b"].data.channel_number = "7.1"
    /\ Len(svc["b"].calls) = 1
    /\ svc["b"].calls[1].op = "watch_channel"

(* The channels of a lineup payload as get_channels is to return them. *)
LineupItems(json) == IF IsList(json) THEN json.items ELSE <<>>

(* The positions of the channels of kind ota or ott whose number, taken    *)
(* from that kind's numbering, equals channel_number.                      *)
MatchesOf(items, channel_number) ==
    {k \in 1..Len(items) :
        LET kind == Get(items[k], "kind", NONE)
        IN  /\ kind \in {"ota", "ott"}
            /\ kind \in DOMAIN items[k]
            /\ {"major", "minor"} \subseteq DOMAIN items[k][kind]
            /\ chan_num(items[k][kind]) = channel_number}

(* The invocation has called get_channels and the call has ended. *)
LookedUp(inv) == CallsOf(inv, "get_channels") # {} /\ Len(inv.resp) >= 1

NotFoundError(channel_number) ==
    HomeAssistantError(<<"Channel ", channel_number, " not found">>)

NeverTunedNorLaunched(inv) ==
    CallsOf(inv, "watch_channel") = {} /\ CallsOf(inv, "launch_tablo_app") = {}

(* C24 (as claimed): when the lineup retrieval of a set_channel invocation *)
(* fails, the invocation fails with a HomeAssistantError whose message is  *)
(* not the "Channel N not found" one; when the retrieved lineup has no     *)
(* channel matching the number N, it fails with HomeAssistantError         *)
(* "Channel N not found"; in both cases neither watch_channel nor the Roku *)
(* launch is invoked.                                                      *)
C24_LookupFailureIsUserFacing ==
    \A i \in Invocations :
        LET inv == svc[i]
            o   == inv.resp[1]
            N   == inv.data.channel_number
        IN  LookedUp(inv) =>
              /\ o.kind # "ok" =>
                    /\ inv.pc = "done"
                    /\ inv.result.status = "raised"
                    /\ inv.result.exc = "HomeAssistantError"
                    /\ inv.result # NotFoundError(N)
                    /\ NeverTunedNorLaunched(inv)
              /\ (o.kind = "ok" /\ MatchesOf(LineupItems(o.json), N) = {}) =>
                    /\ inv.pc = "done"
                    /\ inv.result = NotFoundError(N)
                    /\ NeverTunedNorLaunched(inv)

(* The least element of a non-empty set of positions. *)
FirstOf(S) == CHOOSE k \in S : \A m \in S : k <= m

(* C25: when a set_channel invocation was given a channel number N and no  *)
(* channel id and get_channels returned a lineup with a channel of kind    *)
(* ota or ott whose number "{major}.{minor}" equals N, the invocation goes *)
(* on to tune, and the identifier it hands to watch_channel is that of the *)
(* first such channel in lineup order; a channel of any other kind is not  *)
(* matched, and major 7, minor 1 formats as "7.1".                         *)
C25_FirstMatchingChannelTuned ==
    /\ chan_num([major |-> 7, minor |-> 1]) = "7.1"
    /\ \A i \in Invocations :
          LET inv   == svc[i]
              r     == get_channels_result(inv.resp[1])
              items == r.value.items
              M     == MatchesOf(items, inv.data.channel_number)
              W     == CallsOf(inv, "watch_channel")
          IN  (LookedUp(inv) /\ r.status = "returned" /\ M # {}) =>
                /\ inv.channel_id = items[FirstOf(M)]["identifier"]
                /\ Get(items[FirstOf(M)], "kind", NONE) \in {"ota", "ott"}
                /\ inv.pc \in {"roku", "roku_fallback", "roku_wait"} \/ W # {}
                /\ \A w \in W : inv.calls[w].arg = items[FirstOf(M)]["identifier"]

(* A lineup with a channel of another kind numbered 7.1, a channel 7.10    *)
(* and two channels 7.1: the invocation tuned to the first of the two.     *)
C25_Witness ==
    /\ svc["a"].pc = "done"
    /\ svc["a"].data.channel_number = "7.1"
    /\ svc["a"].data.channel_id = NONE
    /\ svc["a"].result.status = "returned"
    /\ Len(svc["a"].resp) >= 1
    /\ svc["a"].resp[1] = Ok(JList(<<CH_OTHER, CH_OTA710, CH_OTT71, CH_OTA71>>))
    /\ \E w \in CallsOf(svc["a"], "watch_channel") :
          /\ svc["a"].calls[w].arg = "OTT-71"
          /\ svc["a"].calls[w].sent

(* The identifier an invocation is to tune to: the one it was given, else  *)
(* the first match of its number in the lineup its own lookup received.    *)
OwnTarget(inv) ==
    IF ~Falsy(inv.data.channel_id) THEN inv.data.channel_id
    ELSE LET items == LineupItems(inv.resp[1].json)
         IN  items[FirstOf(MatchesOf(items, inv.data.channel_number))]["identifier"]

(* An invocation under way has a DeviceClient built from the persisted     *)
(* entry, its lineup request carries that client's tokens, and its tuning  *)
(* request is the signed POST of that client for its own target, dated at  *)
(* the tick the invocation issued it.                                      *)
OwnClientAndTarget(inv) ==
    (inv.pc # "idle" /\ entries # {}) =>
        /\ inv.client = TabloClient(service_credentials(
                            (CHOOSE e \in entries : e.index = 1).data))
        /\ \A l \in CallsOf(inv, "get_channels") :
              /\ inv.calls[l].req.headers["Authorization"] = inv.client.authorization
              /\ inv.calls[l].req.headers["Lighthouse"] = inv.client.lighthouse
        /\ \A w \in CallsOf(inv, "watch_channel") :
              /\ inv.calls[w].arg = OwnTarget(inv)
              /\ inv.calls[w].req =
                    device_request(inv.client, "POST",
                                   WATCH_CHANNEL_PATH(OwnTarget(inv)), Dict(<<>>),
                                   inv.calls[w].at)

(* The ticks of an invocation's own steps: those of its calls and the one *)
(* its sleep is to end at.                                                 *)
TicksOf(inv) == <<[k \in 1..Len(inv.calls) |-> inv.calls[k].at], inv.wake>>

(* Two invocations with the same call data that have received the same     *)
(* responses (and, of the pending one, its head or not) at the same ticks  *)
(* are in the same state, whatever the other did meanwhile.                *)
SameInputsSameState ==
    \A i, j \in Invocations :
        (/\ svc[i].pc # "idle"
         /\ svc[j].pc # "idle"
         /\ svc[i].data = svc[j].data
         /\ svc[i].resp = svc[j].resp
         /\ svc[i].head = svc[j].head
         /\ TicksOf(svc[i]) = TicksOf(svc[j])) => svc[i] = svc[j]

(* C26: concurrent set_channel invocations are independent.  A step of one *)
(* invocation leaves the other's state as it was; each invocation has its  *)
(* own DeviceClient, built from the persisted entry, and tunes to exactly  *)
(* the identifier it was given or its own lookup resolved; and what an     *)
(* invocation has requested and how it ended is determined by its own call *)
(* data, the responses it received and the clock, not by the other         *)
(* invocation.                                                             *)
C26_InvocationsIndependent ==
    [][ /\ \A i \in Invocations :
              svc'[i] # svc[i] => \A j \in Invocations \ {i} : svc'[j] = svc[j]
        /\ \A i \in Invocations : OwnClientAndTarget(svc'[i])
        /\ SameInputsSameState' ]_vars

(* Both invocations are awaiting their tuning exchange at once, one after  *)
(* its lookup resolved 7.1, the other with the id it was given.            *)
C26_Witness ==
    /\ svc["a"].pc = "watch"
    /\ svc["b"].pc = "watch"
    /\ svc["a"].data.channel_id = NONE
    /\ svc["a"].calls[Len(svc["a"].calls)].arg = "OTT-71"
    /\ svc["b"].data.channel_id = "abc123"
    /\ svc["b"].calls[Len(svc["b"].calls)].arg = "abc123"

(* The positions of an invocation inside the Roku step: awaiting          *)
(* roku.launch_app, awaiting the fallback, asleep in wait_for_app_ready.   *)
RokuPcs == {"roku", "roku_fallback", "roku_wait"}

(* The outcome of the tuning exchange of an invocation that is done, or    *)
(* NONE when the session refused the request before any exchange.          *)
TuneOutcome(inv) ==
    IF inv.calls[Len(inv.calls)].sent THEN inv.resp[Len(inv.resp)] ELSE NONE

(* C31: in a set_channel invocation with a Roku entity and a known channel *)
(* identifier the Roku launch is called once and before watch_channel;     *)
(* once the invocation has left the Roku step, whatever the launch came    *)
(* to, watch_channel has been called exactly once, after it; and the       *)
(* invocation ends as an invocation with the same client, identifier and   *)
(* tuning outcome ends, whatever the launch outcome of either and whether  *)
(* or not it launched at all: the same result, and the same request when   *)
(* both were issued at the same tick.                                      *)
C31_RokuLaunchNeverBlocksTune ==
    /\ \A i \in Invocations :
          LET inv == svc[i]
              R   == CallsOf(inv, "launch_tablo_app")
              W   == CallsOf(inv, "watch_channel")
          IN  /\ (inv.pc # "idle" /\ ~Falsy(inv.data.roku_entity_id)
                  /\ ~Falsy(inv.channel_id) /\ entries # {})
                    => Cardinality(R) = 1
              /\ \A r \in R, w \in W : r < w
              /\ (R # {} /\ inv.pc \in RokuPcs) => W = {}
              /\ (R # {} /\ inv.pc \notin RokuPcs)
                    => (Cardinality(W) = 1 /\ inv.pc \in {"watch", "done"})
    /\ \A i, j \in Invocations :
          LET a  == svc[i]
              b  == svc[j]
              wa == a.calls[Len(a.calls)]
              wb == b.calls[Len(b.calls)]
          IN  (/\ a.pc = "done" /\ b.pc = "done"
               /\ CallsOf(a, "watch_channel") # {}
               /\ CallsOf(b, "watch_channel") # {}
               /\ wa.arg = wb.arg
               /\ TuneOutcome(a) = TuneOutcome(b))
                => /\ a.result = b.result
                   /\ wa.sent = wb.sent
                   /\ wa.req.url = wb.req.url
                   /\ wa.req.data = wb.req.data
                   /\ wa.at = wb.at => wa = wb

(* Two invocations tuned to the same channel with the same outcome, one    *)
(* after both launch methods failed and one after the launch succeeded     *)
(* and the wait for the app ended.                                         *)
C31_Witness ==
    /\ svc["a"].pc = "done"
    /\ svc["b"].pc = "done"
    /\ svc["a"].data.channel_id = "abc123"
    /\ svc["b"].data.channel_id = "abc123"
    /\ Len(svc["a"].calls) = 2
    /\ Len(svc["b"].calls) = 2
    /\ Len(svc["a"].resp) = 4
    /\ Len(svc["b"].resp) = 3
    /\ svc["a"].resp[2] = "failed"
    /\ svc["a"].resp[3] = "failed"
    /\ svc["b"].resp[2] = "launched"
    /\ svc["b"].calls[2].at >= svc["b"].calls[1].at + APP_READY_SLEEP * TicksPerSecond
    /\ svc["a"].calls[2].sent
    /\ svc["a"].resp[4] = Ok([token |-> "session-1"])
    /\ svc["b"].resp[3] = Ok([token |-> "session-1"])
    /\ svc["a"].result.status = "returned"

(* The entries that are loaded: the keys of hass.data[DOMAIN]. *)
LoadedEntries == DOMAIN hass.data

(* C32 (as claimed): after any sequence of async_setup_entry,              *)
(* async_unload_entry and async_reload_entry the services set_channel,     *)
(* get_channels and stop_streaming are registered exactly when at least    *)
(* one config entry is loaded.                                             *)
C32_ServicesRegisteredIffLoaded ==
    /\ hass.services \in {{}, SERVICES}
    /\ (hass.services = SERVICES) <=> (LoadedEntries # {})

-----------------------------------------------------------------------------
(* Log records *)

(* The string s has sub as a substring *)
Contains(s, sub) ==
    \E i \in 1..(Len(s) - Len(sub) + 1) : SubSeq(s, i, i + Len(sub) - 1) = sub

(* Some captured record shows the string v in its text *)
Logged(v) ==
    \E i \in 1..Len(logrecs) : \E s \in logrecs[i].strings : Contains(s, v)

(* The capture holds the records of an authenticate call, of a get_channels *)
(* call: each starts with a record its level always passes or, for         *)
(* get_channels, passes with debug logging on.                             *)
AuthenticateCaptured ==
    /\ Len(logrecs) > 0
    /\ logrecs[1].fmt = "Starting Tablo authentication for user: %s"

GetChannelsCaptured ==
    /\ Len(logrecs) > 0
    /\ logrecs[1].fmt = "Fetching channel lineup from cloud API"

(* C33: with debug logging on or off, no record emitted during            *)
(* authenticate or an operation of the device client contains the account  *)
(* password.                                                               *)
C33_PasswordNeverLogged ==
    \A p \in Passwords : ~Logged(p)

(* C33 witness: authenticate has returned the credentials with debug       *)
(* logging on, the capture holding its records down to the credentials     *)
(* structure, and the login request sent has carried the password.         *)
C33_Witness ==
    /\ debug
    /\ authPc = "done"
    /\ authResult.status = "returned"
    /\ AuthenticateCaptured
    /\ \E i \in 1..Len(logrecs) : logrecs[i].fmt = "Credentials structure: %s"
    /\ Len(authLog) > 0
    /\ authLog[1].req.data.present
    /\ authLog[1].req.data.body[2]["password"] \in Passwords

(* The lighthouse token and the authorization value of the call captured,  *)
(* the token where it is longer than the eight characters a truncation     *)
(* keeps.                                                                  *)
SecretsInPlay ==
    LET of(lighthouse, authorization) ==
            (IF Len(lighthouse) > 8 THEN {lighthouse} ELSE {})
            \cup (IF Len(authorization) > 0 THEN {authorization} ELSE {})
    IN  IF AuthenticateCaptured THEN of(auth.lighthouse, auth.authorization)
        ELSE IF GetChannelsCaptured THEN of(client.lighthouse, client.authorization)
        ELSE {}

(* C34: with debug logging on, no record emitted by authenticate or        *)
(* get_channels contains the full lighthouse token or the full             *)
(* authorization value.                                                    *)
C34_TokensNeverLoggedInFull ==
    debug => \A v \in SecretsInPlay : ~Logged(v)

====
